---------------------------- MODULE Spec2Model ----------------------------
(***************************************************************************)
(* Model of the renderer's state-and-binding reconciliation engine         *)
(* (src/src/Nazara/Renderer/Renderer.cpp): the matrix cache, the           *)
(* per-context vertex-array-object cache, the texture unit table and       *)
(* EnsureStateUpdate, with the draw entry points that call it.             *)
(*                                                                         *)
(* The file is read with NAZARA_DEBUG and NAZARA_RENDERER_SAFE defined:    *)
(* every #ifdef'ed check of the source is part of the model.               *)
(***************************************************************************)
EXTENDS Integers, Sequences, FiniteSets, TLC

(***************************************************************************)
(* Bounds of the model.                                                    *)
(***************************************************************************)
NumContexts == 2
NumVertexBuffers == 2
MaxVAO == 2
MaxSetMatrix == 2

(***************************************************************************)
(* Identities.  0 stands for the null pointer.                             *)
(***************************************************************************)
Null == 0
Contexts == 1..NumContexts
VertexBuffers == 1..NumVertexBuffers
IndexBuffers == {1}
Shaders == {1, 2}
Targets == {1, 2}
Textures == {1, 2}
\* A third texture; SpecTexture never hands it to the renderer.
ForeignTexture == Cardinality(Textures) + 1
TextureUnits == {0, 1}
MaxDirtyUnits == 2
VAONames == 1..MaxVAO

NAZARA_DEBUG == TRUE
NAZARA_RENDERER_SAFE == TRUE

(***************************************************************************)
(* Matrices.  A matrix is a 2x2 matrix over GF(2), <<m11, m12, m21, m22>>: *)
(* the smallest algebra with a non-commutative product and singular        *)
(* elements.  A matrix is affine when its last column is (0, 1).           *)
(***************************************************************************)
Identity == <<1, 0, 0, 1>>
MatA == <<1, 1, 0, 1>>
MatS == <<1, 0, 0, 0>>
MatB == <<1, 0, 1, 1>>
MatrixValues == {MatA, MatS}

\* Matrix4::Concatenate: this = this * matrix.
Concatenate(this, matrix) ==
    << (this[1] * matrix[1] + this[2] * matrix[3]) % 2,
       (this[1] * matrix[2] + this[2] * matrix[4]) % 2,
       (this[3] * matrix[1] + this[4] * matrix[3]) % 2,
       (this[3] * matrix[2] + this[4] * matrix[4]) % 2 >>

\* Matrix4::ConcatenateAffine: the product computed as if both operands
\* were affine (the last column is not read and is written as (0, 1)).
ConcatenateAffine(this, matrix) ==
    << (this[1] * matrix[1]) % 2,
       0,
       (this[3] * matrix[1] + matrix[3]) % 2,
       1 >>

GetDeterminant(m) == (m[1] * m[4] + m[2] * m[3]) % 2

\* Matrix4::GetInverse(dest): writes dest and returns true when the
\* determinant is not zero, returns false and leaves dest alone otherwise.
GetInverse(m, dest) ==
    IF GetDeterminant(m) # 0
    THEN [ok |-> TRUE, dest |-> <<m[4], m[2], m[3], m[1]>>]
    ELSE [ok |-> FALSE, dest |-> dest]

(***************************************************************************)
(* enum MatrixType, in its declaration order.                              *)
(***************************************************************************)
MatrixTypeSeq ==
    << "Projection", "View", "World",
       "ViewProj", "WorldView", "WorldViewProj",
       "InvProjection", "InvView", "InvViewProj",
       "InvWorld", "InvWorldView", "InvWorldViewProj" >>
MatrixTypes == {MatrixTypeSeq[i] : i \in 1..Len(MatrixTypeSeq)}
BaseMatrixTypes == {"Projection", "View", "World"}
InverseMatrixTypes ==
    {"InvProjection", "InvView", "InvViewProj",
     "InvWorld", "InvWorldView", "InvWorldViewProj"}

\* The dependency table the cache is meant to implement: the two factors
\* of a combined slot, the source of an inverse slot.
Sources(type) ==
    CASE type = "ViewProj" -> {"View", "Projection"}
      [] type = "WorldView" -> {"World", "View"}
      [] type = "WorldViewProj" -> {"WorldView", "Projection"}
      [] type = "InvProjection" -> {"Projection"}
      [] type = "InvView" -> {"View"}
      [] type = "InvViewProj" -> {"ViewProj"}
      [] type = "InvWorld" -> {"World"}
      [] type = "InvWorldView" -> {"WorldView"}
      [] type = "InvWorldViewProj" -> {"WorldViewProj"}
      [] OTHER -> {}

InverseSource(type) == CHOOSE s \in Sources(type) : TRUE

RECURSIVE DerivedFrom(_)
\* Every slot transitively derived from `type` in the dependency table.
DerivedFrom(type) ==
    LET direct == {t \in MatrixTypes : type \in Sources(t)}
    IN  direct \cup UNION {DerivedFrom(t) : t \in direct}

UpdateFlags == {"Update_Matrices", "Update_Shader", "Update_Textures", "Update_VAO"}

\* The sub-systems Renderer::Initialize sets up, in the order of its calls
\* (the last one is the registration of the debug shader).
SetupOrder ==
    << "Utility", "OpenGL", "RenderBuffer", "Shader", "Texture",
       "TextureSampler", "UberShader", "DebugSimple" >>
Modules == {SetupOrder[i] : i \in 1..Len(SetupOrder)}

\* What a call returns: nothing, a boolean (ok) or a matrix.
RetVoid == [kind |-> "void", ok |-> TRUE, matrix |-> <<>>]
RetBool(b) == [kind |-> "bool", ok |-> b, matrix |-> <<>>]
RetMatrix(m) == [kind |-> "matrix", ok |-> TRUE, matrix |-> m]
RetPointer(p) == [kind |-> "pointer", ok |-> p # 0, matrix |-> <<>>]

VARIABLES
    s_matrices,             \* MatrixUnit s_matrices[MatrixType_Max+1]
    s_textureUnits,         \* std::vector<TextureUnit>
    s_dirtyTextureUnits,    \* std::vector<unsigned int>
    s_vaos,                 \* Context_Map: context -> (VAO_Key -> vao)
    s_currentVAO,
    s_instanceBuffer,       \* its vertex declaration and vertex count
    s_states,
    s_targetSize,
    s_updateFlags,
    s_indexBuffer,
    s_target,
    s_shader,
    s_vertexBuffer,
    s_capabilities,
    s_instancing,
    s_useSamplerObjects,
    s_useVertexArrayObjects,
    currentContext,         \* Context::GetCurrent()
    glVertexArrays,         \* the backend: live vertex array names per context
    queuedDeletes,          \* the backend: deletions waiting for their context
    glBoundTextures,        \* the backend: the texture bound on each unit
    glTextureSamplers,      \* the backend: the sampler parameters written
                            \* onto each texture, <<>> before any is written
    glUniforms,             \* the backend: the matrix each program holds at
                            \* each uniform location, <<>> before any is sent
    cmds,                   \* backend commands issued by the last call
    report,                 \* errors and warnings reported by the last call
    ret,                    \* what the last call returned
    s_moduleReferenceCounter,
    modules,                \* the sub-systems that are set up
    last,                   \* the last call when it was a draw or a release
                            \* notification, Other after any other call
    setCount,               \* number of SetMatrix calls so far (bounded)
    viewProjSet             \* history: ViewProj stored by SetMatrix since the
                            \* last SetMatrix on View or Projection

vars ==
    << s_matrices, s_textureUnits, s_dirtyTextureUnits, s_vaos, s_currentVAO,
       s_instanceBuffer, s_states, s_targetSize, s_updateFlags, s_indexBuffer,
       s_target, s_shader, s_vertexBuffer, s_capabilities, s_instancing,
       s_useSamplerObjects, s_useVertexArrayObjects, currentContext,
       glVertexArrays, queuedDeletes, glBoundTextures, glTextureSamplers,
       glUniforms, cmds, report, ret,
       s_moduleReferenceCounter, modules, last, setCount, viewProjSet >>

(***************************************************************************)
(* The whole state as one record: the operations below are functions from  *)
(* a state to the state the call leaves, and Commit assigns the result.    *)
(***************************************************************************)
World ==
    [ s_matrices |-> s_matrices,
      s_textureUnits |-> s_textureUnits,
      s_dirtyTextureUnits |-> s_dirtyTextureUnits,
      s_vaos |-> s_vaos,
      s_currentVAO |-> s_currentVAO,
      s_instanceBuffer |-> s_instanceBuffer,
      s_states |-> s_states,
      s_targetSize |-> s_targetSize,
      s_updateFlags |-> s_updateFlags,
      s_indexBuffer |-> s_indexBuffer,
      s_target |-> s_target,
      s_shader |-> s_shader,
      s_vertexBuffer |-> s_vertexBuffer,
      s_capabilities |-> s_capabilities,
      s_instancing |-> s_instancing,
      s_useSamplerObjects |-> s_useSamplerObjects,
      s_useVertexArrayObjects |-> s_useVertexArrayObjects,
      currentContext |-> currentContext,
      glVertexArrays |-> glVertexArrays,
      queuedDeletes |-> queuedDeletes,
      glBoundTextures |-> glBoundTextures,
      glUniforms |-> glUniforms,
      glTextureSamplers |-> glTextureSamplers,
      s_moduleReferenceCounter |-> s_moduleReferenceCounter,
      modules |-> modules,
      cmds |-> <<>>,
      report |-> <<>>,
      ret |-> RetVoid,
      lastError |-> "",       \* Error::GetLastError()
      ok |-> TRUE,            \* result of the EnsureStateUpdate in progress
      updateFailed |-> FALSE, \* its local of the same name
      blocked |-> FALSE ]     \* the model ran out of vertex array names

Commit(w) ==
    /\ s_matrices' = w.s_matrices
    /\ s_textureUnits' = w.s_textureUnits
    /\ s_dirtyTextureUnits' = w.s_dirtyTextureUnits
    /\ s_vaos' = w.s_vaos
    /\ s_currentVAO' = w.s_currentVAO
    /\ s_instanceBuffer' = w.s_instanceBuffer
    /\ s_states' = w.s_states
    /\ s_targetSize' = w.s_targetSize
    /\ s_updateFlags' = w.s_updateFlags
    /\ s_indexBuffer' = w.s_indexBuffer
    /\ s_target' = w.s_target
    /\ s_shader' = w.s_shader
    /\ s_vertexBuffer' = w.s_vertexBuffer
    /\ s_capabilities' = w.s_capabilities
    /\ s_instancing' = w.s_instancing
    /\ s_useSamplerObjects' = w.s_useSamplerObjects
    /\ s_useVertexArrayObjects' = w.s_useVertexArrayObjects
    /\ currentContext' = w.currentContext
    /\ glVertexArrays' = w.glVertexArrays
    /\ queuedDeletes' = w.queuedDeletes
    /\ glBoundTextures' = w.glBoundTextures
    /\ glUniforms' = w.glUniforms
    /\ glTextureSamplers' = w.glTextureSamplers
    /\ cmds' = w.cmds
    /\ report' = w.report
    /\ ret' = w.ret
    /\ s_moduleReferenceCounter' = w.s_moduleReferenceCounter
    /\ modules' = w.modules

\* What `last` records: the entry point, its argument (an instance count or
\* the resource released) and the cache entries the call evicted.
Other == [kind |-> "", arg |-> 0, evicted |-> {}]
Draw(kind, instanceCount) == [kind |-> kind, arg |-> instanceCount, evicted |-> {}]
Release(kind, resource, evicted) ==
    [kind |-> kind, arg |-> resource, evicted |-> evicted]
Call(kind) == [kind |-> kind, arg |-> 0, evicted |-> {}]

Issue(w, cmd) == [w EXCEPT !.cmds = Append(@, cmd)]
NazaraError(w, msg) == [w EXCEPT !.report = Append(@, <<"Error", msg>>)]
NazaraWarning(w, msg) == [w EXCEPT !.report = Append(@, <<"Warning", msg>>)]

(***************************************************************************)
(* Matrix cache.                                                           *)
(***************************************************************************)

\* The slots the switch of SetMatrix marks stale, case by case.
InvalidatedBy(type) ==
    CASE type = "Projection" ->
            {"InvProjection", "InvViewProj", "InvWorldViewProj", "ViewProj",
             "WorldViewProj"}
      [] type = "View" ->
            {"InvView", "InvViewProj", "InvWorld", "InvWorldViewProj",
             "ViewProj", "World", "WorldViewProj"}
      [] type = "World" ->
            {"InvWorld", "InvWorldView", "InvWorldViewProj", "WorldView",
             "WorldViewProj"}
      [] type = "ViewProj" -> {"InvViewProj"}
      [] type = "WorldView" -> {"InvWorldView", "WorldViewProj"}
      [] type = "WorldViewProj" -> {"InvWorldViewProj"}
      [] OTHER -> {}

\* A SetMatrix that forgets the cascade.
SetMatrixNoCascade(w, type, matrix) ==
    [w EXCEPT !.s_matrices[type].matrix = matrix,
              !.s_matrices[type].updated = TRUE,
              !.s_updateFlags = @ \cup {"Update_Matrices"}]

\* A SetMatrix that does not ask for the matrices to be sent again.
SetMatrixNoFlag(w, type, matrix) ==
    LET stale == InvalidatedBy(type)
        stored == [w.s_matrices EXCEPT ![type].matrix = matrix,
                                       ![type].updated = TRUE]
    IN  [w EXCEPT
            !.s_matrices =
                [t \in MatrixTypes |->
                    IF t \in stale THEN [stored[t] EXCEPT !.updated = FALSE]
                    ELSE stored[t]]]

\* Renderer::SetMatrix
SetMatrixOp(w, type, matrix) ==
    LET stale == InvalidatedBy(type)
        stored == [w.s_matrices EXCEPT ![type].matrix = matrix,
                                       ![type].updated = TRUE]
    IN  [w EXCEPT
            !.s_matrices =
                [t \in MatrixTypes |->
                    IF t \in stale THEN [stored[t] EXCEPT !.updated = FALSE]
                    ELSE stored[t]],
            !.s_updateFlags = @ \cup {"Update_Matrices"}]

\* The failure branch of an inverse slot's update; a mutant drops the warning.
InverseFailedSilently(w, type) == w

InverseFailed(w, type) ==
    NazaraWarning(w, <<"Failed to inverse matrix", InverseSource(type)>>)

RECURSIVE UpdateMatrix(_, _)
\* Renderer::UpdateMatrix
UpdateMatrix(w, type) ==
    CASE type \in BaseMatrixTypes ->
            [w EXCEPT !.s_matrices[type].updated = TRUE]
      [] type = "ViewProj" ->
            [w EXCEPT
                !.s_matrices[type].matrix =
                    Concatenate(w.s_matrices["View"].matrix,
                                w.s_matrices["Projection"].matrix),
                !.s_matrices[type].updated = TRUE]
      [] type = "WorldView" ->
            [w EXCEPT
                !.s_matrices[type].matrix =
                    ConcatenateAffine(w.s_matrices["World"].matrix,
                                      w.s_matrices["View"].matrix),
                !.s_matrices[type].updated = TRUE]
      [] type = "WorldViewProj" ->
            LET w1 == IF ~w.s_matrices["WorldView"].updated
                      THEN UpdateMatrix(w, "WorldView") ELSE w
            IN  [w1 EXCEPT
                    !.s_matrices[type].matrix =
                        Concatenate(w1.s_matrices["WorldView"].matrix,
                                    w1.s_matrices["Projection"].matrix),
                    !.s_matrices[type].updated = TRUE]
      [] type \in InverseMatrixTypes ->
            LET src == InverseSource(type)
                w1 == IF ~w.s_matrices[src].updated
                      THEN UpdateMatrix(w, src) ELSE w
                inv == GetInverse(w1.s_matrices[src].matrix,
                                  w1.s_matrices[type].matrix)
                w2 == IF inv.ok THEN w1 ELSE InverseFailed(w1, type)
            IN  [w2 EXCEPT !.s_matrices[type].matrix = inv.dest,
                           !.s_matrices[type].updated = TRUE]

\* Renderer::GetMatrix
GetMatrixOp(w, type) ==
    LET w1 == IF ~w.s_matrices[type].updated THEN UpdateMatrix(w, type) ELSE w
    IN  [w1 EXCEPT !.ret = RetMatrix(w1.s_matrices[type].matrix)]

(***************************************************************************)
(* Collaborators: what the renderer reads from resources and the backend.  *)
(***************************************************************************)
Declarations == {1, 2}

\* VertexBuffer::GetVertexDeclaration: odd buffers use declaration 1, even
\* buffers declaration 2.
VertexDeclarationOf(vertexBuffer) == IF vertexBuffer % 2 = 1 THEN 1 ELSE 2

\* The component ranges EnsureStateUpdate walks, in enum order.
VertexDataComponents == <<"Color", "Normal", "Position">>
InstanceDataComponents == <<"InstanceData0">>

\* VertexDeclaration::GetComponent.  Declaration 1 holds float and color
\* components only; declaration 2 holds a double-precision normal.
GetComponent(declaration, component) ==
    CASE component = "Color" -> [enabled |-> TRUE, type |-> "Color"]
      [] component = "Normal" ->
            IF declaration = 2 THEN [enabled |-> TRUE, type |-> "Double3"]
            ELSE [enabled |-> FALSE, type |-> "Float3"]
      [] component = "Position" -> [enabled |-> TRUE, type |-> "Float3"]
      [] component = "InstanceData0" -> [enabled |-> TRUE, type |-> "Float4"]

\* Shader::GetUniformLocation: -1 when the program does not expose the
\* uniform.  Program 1 reads WorldViewProj and the target size, program 2
\* reads World, ViewProj and InvView.
ShaderUniforms(shader) ==
    IF shader = 1 THEN {"WorldViewProj", "TargetSize", "InvTargetSize"}
    ELSE {"World", "ViewProj", "InvView"}

UniformIndex(uniform) ==
    IF uniform \in MatrixTypes
    THEN CHOOSE i \in 1..Len(MatrixTypeSeq) : MatrixTypeSeq[i] = uniform
    ELSE IF uniform = "TargetSize" THEN 13 ELSE 14

GetUniformLocation(shader, uniform) ==
    IF uniform \in ShaderUniforms(shader) THEN UniformIndex(uniform) ELSE -1

\* RenderTarget::GetWidth/GetHeight as one number: they are unsigned, and
\* target 2 has no area (a minimised window).
TargetSizeOf(target) == IF target = 2 THEN 0 ELSE 1

\* Texture::HasMipmaps
HasMipmaps(texture) == texture = 2

(***************************************************************************)
(* The backend's vertex array objects.  Names are local to a context.      *)
(***************************************************************************)
glDeleteVertexArrays(w, vao) ==
    LET c == w.currentContext
        w1 == Issue(w, <<"glDeleteVertexArrays", c, vao>>)
    IN  IF c # Null /\ vao # 0
        THEN [w1 EXCEPT !.glVertexArrays[c] = @ \ {vao}]
        ELSE w1

\* A deletion that ignores the owning context.
DeleteVertexArrayNow(w, context, vao) == glDeleteVertexArrays(w, vao)

\* OpenGL::DeleteVertexArray(context, vao): deleted at once when `context`
\* is current, queued for that context otherwise.
DeleteVertexArray(w, context, vao) ==
    IF w.currentContext = context
    THEN glDeleteVertexArrays(w, vao)
    ELSE [w EXCEPT !.queuedDeletes[context] = @ \cup ({vao} \ {0})]

\* Context::SetActive and OpenGL::OnContextChanged: the queued deletions of
\* the context that becomes current are executed.
ContextSetActiveOp(w, context) ==
    LET w1 == [w EXCEPT !.currentContext = context]
    IN  IF context = Null \/ w.queuedDeletes[context] = {}
        THEN w1
        ELSE [Issue(w1, <<"glDeleteVertexArrays", context,
                          w.queuedDeletes[context]>>)
                 EXCEPT !.glVertexArrays[context] = @ \ w.queuedDeletes[context],
                        !.queuedDeletes[context] = {}]

(***************************************************************************)
(* The vertex-array-object cache: release notifications.                   *)
(***************************************************************************)
EmptyMap == [k \in {} |-> 0]

\* The cache entries <<context, key>> of s_vaos.
Entries(w) ==
    UNION {{<<c, k>> : k \in DOMAIN w.s_vaos[c]} : c \in DOMAIN w.s_vaos}

RECURSIVE EvictEachDirect(_, _)
\* An eviction that deletes the handle at once, whichever context is current.
EvictEachDirect(w, entries) ==
    IF entries = {} THEN w
    ELSE LET e == CHOOSE x \in entries : TRUE
         IN  EvictEachDirect(
                 [DeleteVertexArrayNow(w, e[1], w.s_vaos[e[1]][e[2]])
                     EXCEPT !.s_vaos[e[1]] =
                         [x \in DOMAIN @ \ {e[2]} |-> @[x]]],
                 entries \ {e})

RECURSIVE EvictEach(_, _)
\* The loop body shared by the three release handlers, once per entry of
\* `entries`: OpenGL::DeleteVertexArray(context, vao), then vaos.erase(it).
EvictEach(w, entries) ==
    IF entries = {} THEN w
    ELSE LET e == CHOOSE x \in entries : TRUE
             c == e[1]
             k == e[2]
             w1 == DeleteVertexArray(w, c, w.s_vaos[c][k])
             w2 == [w1 EXCEPT !.s_vaos[c] =
                        [x \in DOMAIN @ \ {k} |-> @[x]]]
         IN  EvictEach(w2, entries \ {e})

\* Renderer::OnIndexBufferRelease
OnIndexBufferRelease(w, indexBuffer) ==
    EvictEach(w, {e \in Entries(w) : e[2][1] = indexBuffer})

\* A handler that walks the map of the current context only.
OnVertexBufferReleaseCurrentOnly(w, vertexBuffer) ==
    EvictEach(w, {e \in Entries(w) :
                    e[1] = w.currentContext /\ e[2][2] = vertexBuffer})

\* Renderer::OnVertexBufferRelease
OnVertexBufferRelease(w, vertexBuffer) ==
    EvictEach(w, {e \in Entries(w) : e[2][2] = vertexBuffer})

\* A handler that forgets the instancing declaration of the key.
OnVertexDeclarationReleaseBaseOnly(w, vertexDeclaration) ==
    EvictEach(w, {e \in Entries(w) : e[2][3] = vertexDeclaration})

\* Renderer::OnVertexDeclarationRelease
OnVertexDeclarationRelease(w, vertexDeclaration) ==
    EvictEach(w, {e \in Entries(w) :
                    e[2][3] = vertexDeclaration \/ e[2][4] = vertexDeclaration})

\* Renderer::OnContextRelease
OnContextRelease(w, context) ==
    [w EXCEPT !.s_vaos = [c \in DOMAIN @ \ {context} |-> @[c]]]

(***************************************************************************)
(* EnsureStateUpdate.                                                      *)
(***************************************************************************)

\* A NazaraError inside EnsureStateUpdate: silent (ErrorFlag_Silent), kept
\* as the last error, and the function returns false.
Fail(w, msg) == [w EXCEPT !.lastError = msg, !.ok = FALSE]

\* Renderer::IsComponentTypeSupported.  glVertexAttribLPointer is loaded
\* with the FP64 extension; glVertexAttribIPointer is taken as present.
IsComponentTypeSupported(w, type) ==
    CASE type \in {"Color", "Float1", "Float2", "Float3", "Float4"} -> TRUE
      [] type \in {"Double1", "Double2", "Double3", "Double4"} ->
            w.s_capabilities.FP64
      [] type \in {"Int1", "Int2", "Int3", "Int4"} -> TRUE
      [] OTHER -> FALSE

\* A program change that does not ask for the matrices again.
ResolveLocationsNoResend(w) ==
    [w EXCEPT
        !.s_matrices =
            [t \in MatrixTypes |->
                [@[t] EXCEPT !.location = GetUniformLocation(w.s_shader, t)]],
        !.s_targetSize = 0,
        !.s_updateFlags = @ \ {"Update_Shader"}]

\* Lines 1509-1531: the program changed, every location is resolved again.
ResolveLocations(w) ==
    [w EXCEPT
        !.s_matrices =
            [t \in MatrixTypes |->
                [@[t] EXCEPT !.location = GetUniformLocation(w.s_shader, t)]],
        !.s_targetSize = 0,
        !.s_updateFlags = (@ \cup {"Update_Matrices"}) \ {"Update_Shader"}]

\* Lines 1533-1548: the uniforms that hold the target size.
SendTargetSize(w) ==
    LET targetSize == TargetSizeOf(w.s_target)
        inv == GetUniformLocation(w.s_shader, "InvTargetSize")
        loc == GetUniformLocation(w.s_shader, "TargetSize")
        w1 == IF inv # -1
              THEN Issue(w, <<"SendVector", w.s_shader, inv, <<"1/", targetSize>>>>)
              ELSE w
        w2 == IF loc # -1
              THEN Issue(w1, <<"SendVector", w.s_shader, loc, <<"", targetSize>>>>)
              ELSE w1
    IN  IF w.s_targetSize # targetSize
        THEN [w2 EXCEPT !.s_targetSize = targetSize]
        ELSE w

\* TextureSampler::Apply(texture): the parameters of the sampler are
\* written onto the texture.
SamplerApply(w, texture, sampler) ==
    [Issue(w, <<"SamplerApply", texture, sampler>>)
        EXCEPT !.glTextureSamplers[texture] = sampler]

RECURSIVE ApplySamplersEveryEntry(_, _)
\* A loop that applies the sampler for every entry of the queue, whatever
\* samplerUpdated says.
ApplySamplersEveryEntry(w, n) ==
    IF n > Len(w.s_dirtyTextureUnits) THEN w
    ELSE ApplySamplersEveryEntry(
             IF w.s_textureUnits[w.s_dirtyTextureUnits[n]].texture # Null
             THEN [(IF w.s_useSamplerObjects
                    THEN Issue(w, <<"SamplerBind", w.s_dirtyTextureUnits[n],
                                    w.s_textureUnits[w.s_dirtyTextureUnits[n]].sampler>>)
                    ELSE SamplerApply(
                             Issue(w, <<"BindTextureUnit", w.s_dirtyTextureUnits[n]>>),
                             w.s_textureUnits[w.s_dirtyTextureUnits[n]].texture,
                             w.s_textureUnits[w.s_dirtyTextureUnits[n]].sampler))
                      EXCEPT !.s_textureUnits[w.s_dirtyTextureUnits[n]].samplerUpdated = TRUE]
             ELSE w,
             n + 1)

RECURSIVE ApplySamplers(_, _)
\* Lines 1554-1580: the loop over s_dirtyTextureUnits, from index n on.
ApplySamplers(w, n) ==
    IF n > Len(w.s_dirtyTextureUnits) THEN w
    ELSE LET i == w.s_dirtyTextureUnits[n]
             unit == w.s_textureUnits[i]
             w1 == IF unit.texture # Null /\ ~unit.samplerUpdated
                   THEN [(IF w.s_useSamplerObjects
                          THEN Issue(w, <<"SamplerBind", i, unit.sampler>>)
                          ELSE SamplerApply(Issue(w, <<"BindTextureUnit", i>>),
                                            unit.texture, unit.sampler))
                            EXCEPT !.s_textureUnits[i].samplerUpdated = TRUE]
                   ELSE w
         IN  ApplySamplers(w1, n + 1)

\* Lines 1552-1584
UpdateTextures(w) ==
    [ApplySamplers(w, 1) EXCEPT !.s_dirtyTextureUnits = <<>>,
                                !.s_updateFlags = @ \ {"Update_Textures"}]

\* Line 1596: shader->SendMatrix(location, matrix) of one slot.
SendMatrix(w, type) ==
    [Issue(w, <<"SendMatrix", w.s_shader, w.s_matrices[type].location,
                w.s_matrices[type].matrix>>)
        EXCEPT !.glUniforms[w.s_shader] =
                   [t \in MatrixTypes |->
                       IF UniformIndex(t) = w.s_matrices[type].location
                       THEN w.s_matrices[type].matrix ELSE @[t]]]

RECURSIVE SendMatricesUnfiltered(_, _)
\* A loop that brings every slot up to date and sends it, exposed or not.
SendMatricesUnfiltered(w, n) ==
    IF n > Len(MatrixTypeSeq) THEN w
    ELSE SendMatricesUnfiltered(
             SendMatrix(IF ~w.s_matrices[MatrixTypeSeq[n]].updated
                        THEN UpdateMatrix(w, MatrixTypeSeq[n]) ELSE w,
                        MatrixTypeSeq[n]),
             n + 1)

RECURSIVE SendMatrices(_, _)
\* Lines 1588-1598: the loop over the matrix slots, from index n on.
SendMatrices(w, n) ==
    IF n > Len(MatrixTypeSeq) THEN w
    ELSE IF w.s_matrices[MatrixTypeSeq[n]].location # -1
    THEN SendMatrices(
             SendMatrix(IF ~w.s_matrices[MatrixTypeSeq[n]].updated
                        THEN UpdateMatrix(w, MatrixTypeSeq[n]) ELSE w,
                        MatrixTypeSeq[n]),
             n + 1)
    ELSE SendMatrices(w, n + 1)

\* Lines 1586-1601
UpdateMatrices(w) ==
    [SendMatrices(w, 1) EXCEPT !.s_updateFlags = @ \ {"Update_Matrices"}]

\* The VAO_Key of the tracked state (lines 1634-1636).
CurrentKey(w) ==
    << w.s_indexBuffer, w.s_vertexBuffer, VertexDeclarationOf(w.s_vertexBuffer),
       IF w.s_instancing THEN w.s_instanceBuffer.declaration ELSE Null >>

RECURSIVE ProgramComponents(_, _, _, _, _)
\* Lines 1696-1783: the loop over the components of one declaration, from
\* index j on; it stops (break) at the first unsupported type.
ProgramComponents(w, declaration, components, j, instanceData) ==
    IF j > Len(components) THEN w
    ELSE LET name == components[j]
             c == GetComponent(declaration, name)
         IN  IF c.enabled
             THEN IF ~IsComponentTypeSupported(w, c.type)
                  THEN [w EXCEPT !.lastError = "Invalid vertex declaration",
                                 !.updateFailed = TRUE]
                  ELSE LET w1 == Issue(w, <<"glEnableVertexAttribArray", name>>)
                           w2 == Issue(w1, <<"glVertexAttribPointer", name, c.type>>)
                           w3 == IF instanceData
                                 THEN Issue(w2, <<"glVertexAttribDivisor", name, 1>>)
                                 ELSE w2
                       IN  ProgramComponents(w3, declaration, components, j + 1,
                                             instanceData)
             ELSE ProgramComponents(
                      Issue(w, <<"glDisableVertexAttribArray", name>>),
                      declaration, components, j + 1, instanceData)

\* Lines 1681-1784, one iteration of the outer loop: the vertex buffer
\* (i = 0) or the instance buffer (i = 1).
ProgramBuffer(w, i) ==
    IF i = 0
    THEN ProgramComponents(
             Issue(w, <<"glBindBuffer", "Vertex", w.s_vertexBuffer>>),
             VertexDeclarationOf(w.s_vertexBuffer), VertexDataComponents, 1, FALSE)
    ELSE ProgramComponents(
             Issue(w, <<"glBindBuffer", "Vertex", "s_instanceBuffer">>),
             w.s_instanceBuffer.declaration, InstanceDataComponents, 1, TRUE)

RECURSIVE DisableInstanceData(_, _)
\* Lines 1786-1792
DisableInstanceData(w, j) ==
    IF j > Len(InstanceDataComponents) THEN w
    ELSE DisableInstanceData(
             Issue(w, <<"glDisableVertexAttribArray", InstanceDataComponents[j]>>),
             j + 1)

\* The second iteration of the outer loop (taken when instancing is on) and
\* lines 1786-1792 (taken when it is off).
InstanceAttributes(w) ==
    IF w.s_instancing THEN ProgramBuffer(w, 1) ELSE DisableInstanceData(w, 1)

\* Lines 1678-1806: the attributes are declared from scratch.
ProgramAttributes(w) ==
    Issue(Issue(InstanceAttributes(ProgramBuffer(w, 0)),
                <<"glBindBuffer", "Index", w.s_indexBuffer>>),
          <<"SetBuffer", 0>>)

\* A resolution that never looks into the map: every call creates an object.
ResolveVAOAlwaysCreate(w, gen) ==
    IF gen = 0
    THEN [w |-> [w EXCEPT !.blocked = TRUE], update |-> FALSE]
    ELSE [w |->
            [Issue(Issue(w, <<"glGenVertexArrays", w.currentContext, gen>>),
                   <<"glBindVertexArray", w.currentContext, gen>>)
                EXCEPT !.glVertexArrays[w.currentContext] = @ \cup {gen},
                       !.s_currentVAO = gen,
                       !.s_vaos =
                           [c \in DOMAIN @ \cup {w.currentContext} |->
                               [k \in (IF c \in DOMAIN @ THEN DOMAIN @[c] ELSE {})
                                          \cup (IF c = w.currentContext
                                                THEN {CurrentKey(w)} ELSE {}) |->
                                   IF c = w.currentContext /\ k = CurrentKey(w)
                                   THEN gen ELSE @[c][k]]]],
          update |-> TRUE]

\* A resolution that takes an entry holding the null handle for a miss and
\* creates an object for it again.
ResolveVAORetryFailed(w, gen) ==
    LET context == w.currentContext
        w1 == IF context \in DOMAIN w.s_vaos THEN w
              ELSE [w EXCEPT !.s_vaos =
                        [c \in DOMAIN @ \cup {context} |->
                            IF c = context THEN EmptyMap ELSE @[c]]]
        key == CurrentKey(w)
        vaoMap == w1.s_vaos[context]
    IN  IF key \in DOMAIN vaoMap /\ vaoMap[key] # 0
        THEN [w |-> [w1 EXCEPT !.s_currentVAO = vaoMap[key]], update |-> FALSE]
        ELSE IF gen = 0
        THEN [w |-> [w1 EXCEPT !.blocked = TRUE], update |-> FALSE]
        ELSE [w |->
                [Issue(Issue(w1, <<"glGenVertexArrays", context, gen>>),
                       <<"glBindVertexArray", context, gen>>)
                    EXCEPT !.glVertexArrays[context] = @ \cup {gen},
                           !.s_currentVAO = gen,
                           !.s_vaos[context] =
                               [k \in DOMAIN @ \cup {key} |->
                                   IF k = key THEN gen ELSE @[k]]],
              update |-> TRUE]

\* Lines 1617-1672: the entry of the current key in the current context's
\* map, created with the name `gen` (what glGenVertexArrays returns) on a
\* miss.  The result tells in `update` whether the object is to be built.
ResolveVAO(w, gen) ==
    LET context == w.currentContext
        w1 == IF context \in DOMAIN w.s_vaos THEN w
              ELSE [w EXCEPT !.s_vaos =
                        [c \in DOMAIN @ \cup {context} |->
                            IF c = context THEN EmptyMap ELSE @[c]]]
        key == CurrentKey(w)
        vaoMap == w1.s_vaos[context]
    IN  IF key \in DOMAIN vaoMap
        THEN [w |-> [w1 EXCEPT !.s_currentVAO = vaoMap[key]], update |-> FALSE]
        ELSE IF gen = 0
        THEN [w |-> [w1 EXCEPT !.blocked = TRUE], update |-> FALSE]
        ELSE [w |->
                [Issue(Issue(w1, <<"glGenVertexArrays", context, gen>>),
                       <<"glBindVertexArray", context, gen>>)
                    EXCEPT !.glVertexArrays[context] = @ \cup {gen},
                           !.s_currentVAO = gen,
                           !.s_vaos[context] =
                               [k \in DOMAIN @ \cup {key} |->
                                   IF k = key THEN gen ELSE @[k]]],
              update |-> TRUE]

\* An end of build that erases the entry of a failed build.
FinishVAOEvict(w, update) ==
    LET context == w.currentContext
        key == CurrentKey(w)
        w1 == IF ~update THEN w
              ELSE IF w.updateFailed
              THEN [glDeleteVertexArrays(w, w.s_vaos[context][key])
                        EXCEPT !.s_vaos[context] =
                                   [k \in DOMAIN @ \ {key} |-> @[k]],
                               !.s_currentVAO = 0]
              ELSE Issue(w, <<"glBindVertexArray", context, 0>>)
    IN  [w1 EXCEPT !.s_updateFlags = @ \ {"Update_VAO"}]

\* Lines 1808-1825: the end of a build with vertex array objects.
FinishVAO(w, update) ==
    LET context == w.currentContext
        key == CurrentKey(w)
        w1 == IF ~update THEN w
              ELSE IF w.updateFailed
              THEN [glDeleteVertexArrays(w, w.s_vaos[context][key])
                        EXCEPT !.s_vaos[context][key] = 0,
                               !.s_currentVAO = 0]
              ELSE Issue(w, <<"glBindVertexArray", context, 0>>)
    IN  [w1 EXCEPT !.s_updateFlags = @ \ {"Update_VAO"}]

\* Lines 1674-1825 with vertex array objects: `r` is what ResolveVAO found.
BuildVAO(r) ==
    FinishVAO(IF r.update THEN ProgramAttributes(r.w) ELSE r.w, r.update)

\* Lines 1603-1826
UpdateVAO(w, gen) ==
    IF NAZARA_RENDERER_SAFE /\ w.s_vertexBuffer = Null
    THEN Fail(w, "No vertex buffer")
    ELSE IF w.s_useVertexArrayObjects
    THEN BuildVAO(ResolveVAO(w, gen))
    ELSE ProgramAttributes(w)

\* An end of reconciliation that trusts the bindings of the last draw.
BindTexturesNever(w, units) == w

RECURSIVE BindTextures(_, _)
\* Lines 1849-1857: every unit that tracks a texture is bound again.
BindTextures(w, units) ==
    IF units = {} THEN w
    ELSE LET i == CHOOSE u \in units : \A v \in units : u <= v
             texture == w.s_textureUnits[i].texture
             w1 == IF texture # Null
                   THEN [Issue(Issue(w, <<"BindTexture", i, texture>>),
                               <<"EnsureMipmapsUpdate", texture>>)
                            EXCEPT !.glBoundTextures[i] = texture]
                   ELSE w
         IN  BindTextures(w1, units \ {i})

\* An end of reconciliation that applies the render states first.
BindAndApplyStatesFirst(w) ==
    IF w.s_useVertexArrayObjects /\ w.s_currentVAO = 0
    THEN Fail(w, "Failed to create VAO")
    ELSE BindTextures(IF w.s_useVertexArrayObjects
                      THEN Issue(Issue(w, <<"ApplyStates", w.s_states>>),
                                 <<"glBindVertexArray", w.currentContext,
                                   w.s_currentVAO>>)
                      ELSE Issue(w, <<"ApplyStates", w.s_states>>),
                      TextureUnits)

\* Lines 1834-1862: the vertex array object is bound, then the textures,
\* then the render states.
BindAndApply(w) ==
    IF w.s_useVertexArrayObjects /\ w.s_currentVAO = 0
    THEN Fail(w, "Failed to create VAO")
    ELSE Issue(BindTextures(IF w.s_useVertexArrayObjects
                            THEN Issue(w, <<"glBindVertexArray", w.currentContext,
                                            w.s_currentVAO>>)
                            ELSE w,
                            TextureUnits),
               <<"ApplyStates", w.s_states>>)

\* Line 1552
IfFlagTextures(w) ==
    IF "Update_Textures" \in w.s_updateFlags THEN UpdateTextures(w) ELSE w

\* Line 1586
IfFlagMatrices(w) ==
    IF "Update_Matrices" \in w.s_updateFlags THEN UpdateMatrices(w) ELSE w

\* Line 1603
IfFlagVAO(w, gen) ==
    IF "Update_VAO" \in w.s_updateFlags THEN UpdateVAO(w, gen) ELSE w

\* Lines 1550-1832: what the update flags ask for.
UpdateFlagged(w, gen) ==
    IfFlagVAO(IfFlagMatrices(IfFlagTextures(w)), gen)

\* Line 1509
IfFlagShader(w) ==
    IF "Update_Shader" \in w.s_updateFlags THEN ResolveLocations(w) ELSE w

\* A `return false` inside the flagged updates ends the function; otherwise
\* lines 1834-1862 follow.
IfUpdated(w) == IF ~w.ok THEN w ELSE BindAndApply(w)

\* An EnsureStateUpdate that binds the program before it looks at the target.
EnsureStateUpdateBindFirst(w, gen) ==
    IF NAZARA_DEBUG /\ w.currentContext = Null THEN Fail(w, "No active context")
    ELSE IF NAZARA_RENDERER_SAFE /\ w.s_shader = Null THEN Fail(w, "No shader")
    ELSE IF NAZARA_RENDERER_SAFE /\ w.s_target = Null
    THEN Fail(Issue(w, <<"ShaderBind", w.s_shader>>), "No target")
    ELSE IfUpdated(
             UpdateFlagged(
                 SendTargetSize(
                     IfFlagShader(
                         Issue(Issue(w, <<"EnsureTargetUpdated", w.s_target>>),
                               <<"ShaderBind", w.s_shader>>))),
                 gen))

\* Renderer::EnsureStateUpdate.  `gen` is the name glGenVertexArrays would
\* return in the current context.
EnsureStateUpdate(w, gen) ==
    IF NAZARA_DEBUG /\ w.currentContext = Null THEN Fail(w, "No active context")
    ELSE IF NAZARA_RENDERER_SAFE /\ w.s_shader = Null THEN Fail(w, "No shader")
    ELSE IF NAZARA_RENDERER_SAFE /\ w.s_target = Null THEN Fail(w, "No target")
    ELSE IfUpdated(
             UpdateFlagged(
                 SendTargetSize(
                     IfFlagShader(
                         Issue(Issue(w, <<"EnsureTargetUpdated", w.s_target>>),
                               <<"ShaderBind", w.s_shader>>))),
                 gen))

(***************************************************************************)
(* Setters and draw entry points.                                          *)
(***************************************************************************)
InstanceBufferCapacity == 1
InstanceCounts == 0..(InstanceBufferCapacity + 1)

\* Renderer::EnableInstancing
EnableInstancing(w, instancing) ==
    IF w.s_instancing # instancing
    THEN [w EXCEPT !.s_updateFlags = @ \cup {"Update_VAO"},
                   !.s_instancing = instancing]
    ELSE w

\* Renderer::Clear.  With flags and no target, line 170 calls a member
\* function through the null s_target: the call either faults or goes on
\* to glClear, as `faults` says.
ClearOp(w, flags, faults) ==
    IF NAZARA_DEBUG /\ w.currentContext = Null
    THEN NazaraError(w, <<"No active context">>)
    ELSE IF flags = 0 THEN w
    ELSE IF w.s_target = Null /\ faults
    THEN Issue(w, <<"NullDereference", "s_target">>)
    ELSE Issue(Issue(Issue(w, <<"EnsureTargetUpdated", w.s_target>>),
                     <<"ApplyStates", w.s_states>>),
               <<"glClear", flags>>)

\* Renderer::SetIndexBuffer
SetIndexBufferOp(w, indexBuffer, isHardware) ==
    IF NAZARA_RENDERER_SAFE /\ indexBuffer # Null /\ ~isHardware
    THEN NazaraError(w, <<"Buffer must be hardware">>)
    ELSE IF w.s_indexBuffer # indexBuffer
    THEN [w EXCEPT !.s_indexBuffer = indexBuffer,
                   !.s_updateFlags = @ \cup {"Update_VAO"}]
    ELSE w

\* Renderer::SetVertexBuffer
\* A SetVertexBuffer that tracks whatever it is given, null included.
SetVertexBufferAny(w, vertexBuffer, isHardware) ==
    IF NAZARA_RENDERER_SAFE /\ vertexBuffer # Null /\ ~isHardware
    THEN NazaraError(w, <<"Buffer must be hardware">>)
    ELSE IF w.s_vertexBuffer # vertexBuffer
    THEN [w EXCEPT !.s_vertexBuffer = vertexBuffer,
                   !.s_updateFlags = @ \cup {"Update_VAO"}]
    ELSE w

SetVertexBufferOp(w, vertexBuffer, isHardware) ==
    IF NAZARA_RENDERER_SAFE /\ vertexBuffer # Null /\ ~isHardware
    THEN NazaraError(w, <<"Buffer must be hardware">>)
    ELSE IF vertexBuffer # Null /\ w.s_vertexBuffer # vertexBuffer
    THEN [w EXCEPT !.s_vertexBuffer = vertexBuffer,
                   !.s_updateFlags = @ \cup {"Update_VAO"}]
    ELSE w

\* Renderer::SetShader
SetShaderOp(w, shader, isValid) ==
    IF NAZARA_RENDERER_SAFE /\ shader # Null /\ ~isValid
    THEN NazaraError(w, <<"Invalid shader">>)
    ELSE IF w.s_shader # shader
    THEN [w EXCEPT !.s_shader = shader,
                   !.s_updateFlags = @ \cup {"Update_Shader"}]
    ELSE w

\* Renderer::SetTarget.  `isRenderable` and `activated` are the answers of
\* RenderTarget::IsRenderable and RenderTarget::Activate.
SetTargetOp(w, target, isRenderable, activated) ==
    IF w.s_target = target THEN [w EXCEPT !.ret = RetBool(TRUE)]
    ELSE LET w1 == [w EXCEPT !.s_target = Null]
         IN  IF target # Null /\ NAZARA_RENDERER_SAFE /\ ~isRenderable
             THEN [NazaraError(w1, <<"Target not renderable">>)
                      EXCEPT !.ret = RetBool(FALSE)]
             ELSE IF target # Null /\ ~activated
             THEN [NazaraError(w1, <<"Failed to activate target">>)
                      EXCEPT !.ret = RetBool(FALSE)]
             ELSE [Issue(w1, <<"SetTarget", target>>)
                      EXCEPT !.s_target = target, !.ret = RetBool(TRUE)]

\* TextureSampler::UseMipmaps: the sampler with its mip-mapping need set; it
\* answers true when the need changed.
UseMipmaps(sampler, mipmaps) == [sampler EXCEPT !.mipmaps = mipmaps]

\* A SetTexture that does not compare the texture with the tracked one.
SetTextureAlways(w, unit, texture) ==
    [w EXCEPT
        !.s_textureUnits[unit] =
            IF texture = Null THEN [@ EXCEPT !.texture = Null]
            ELSE [texture |-> texture,
                  sampler |-> UseMipmaps(@.sampler, HasMipmaps(texture)),
                  samplerUpdated |->
                      IF @.sampler.mipmaps # HasMipmaps(texture)
                      THEN FALSE ELSE @.samplerUpdated],
        !.s_dirtyTextureUnits = Append(@, unit),
        !.s_updateFlags = @ \cup {"Update_Textures"}]

\* Renderer::SetTexture
SetTextureOp(w, unit, texture) ==
    IF NAZARA_RENDERER_SAFE /\ unit \notin TextureUnits
    THEN NazaraError(w, <<"Texture unit out of range">>)
    ELSE IF w.s_textureUnits[unit].texture # texture
    THEN [w EXCEPT
            !.s_textureUnits[unit] =
                IF texture = Null THEN [@ EXCEPT !.texture = Null]
                ELSE [texture |-> texture,
                      sampler |-> UseMipmaps(@.sampler, HasMipmaps(texture)),
                      samplerUpdated |->
                          IF @.sampler.mipmaps # HasMipmaps(texture)
                          THEN FALSE ELSE @.samplerUpdated],
            !.s_dirtyTextureUnits = Append(@, unit),
            !.s_updateFlags = @ \cup {"Update_Textures"}]
    ELSE w

\* A SetTextureSampler that stores the sampler and clears samplerUpdated
\* without queueing the unit.
SetTextureSamplerUnqueued(w, unit, sampler) ==
    IF NAZARA_RENDERER_SAFE /\ unit \notin TextureUnits
    THEN NazaraError(w, <<"Texture unit out of range">>)
    ELSE [w EXCEPT
            !.s_textureUnits[unit] =
                [texture |-> @.texture,
                 sampler |-> IF @.texture # Null
                             THEN UseMipmaps(sampler, HasMipmaps(@.texture))
                             ELSE sampler,
                 samplerUpdated |-> FALSE],
            !.s_updateFlags = @ \cup {"Update_Textures"}]

\* Renderer::SetTextureSampler
SetTextureSamplerOp(w, unit, sampler) ==
    IF NAZARA_RENDERER_SAFE /\ unit \notin TextureUnits
    THEN NazaraError(w, <<"Texture unit out of range">>)
    ELSE [w EXCEPT
            !.s_textureUnits[unit] =
                [texture |-> @.texture,
                 sampler |-> IF @.texture # Null
                             THEN UseMipmaps(sampler, HasMipmaps(@.texture))
                             ELSE sampler,
                 samplerUpdated |-> FALSE],
            !.s_dirtyTextureUnits = Append(@, unit),
            !.s_updateFlags = @ \cup {"Update_Textures"}]

\* A handler that forgets the program without asking for a new resolution.
OnShaderReleasedNoFlag(w, shader) ==
    IF w.s_shader = shader THEN [w EXCEPT !.s_shader = Null] ELSE w

\* Renderer::OnShaderReleased
OnShaderReleased(w, shader) ==
    IF w.s_shader = shader
    THEN [w EXCEPT !.s_shader = Null,
                   !.s_updateFlags = @ \cup {"Update_Shader"}]
    ELSE w

\* A notification that stops at the first unit.
OnTextureReleasedFirstUnit(w, texture) ==
    [w EXCEPT !.s_textureUnits[0].texture = IF @ = texture THEN Null ELSE @]

\* Renderer::OnTextureReleased
OnTextureReleased(w, texture) ==
    [w EXCEPT
        !.s_textureUnits =
            [u \in DOMAIN @ |->
                IF @[u].texture = texture THEN [@[u] EXCEPT !.texture = Null]
                ELSE @[u]]]

\* Renderer::SetRenderStates
SetRenderStatesOp(w, states) == [w EXCEPT !.s_states = states]

\* A BeginCondition that does not look at the capability.
BeginConditionUnchecked(w) ==
    IF NAZARA_DEBUG /\ w.currentContext = Null
    THEN NazaraError(w, <<"No active context">>)
    ELSE Issue(w, <<"glBeginConditionalRender">>)

\* Renderer::BeginCondition
BeginConditionOp(w) ==
    IF NAZARA_DEBUG /\ w.currentContext = Null
    THEN NazaraError(w, <<"No active context">>)
    ELSE IF NAZARA_RENDERER_SAFE /\ ~w.s_capabilities.ConditionalRendering
    THEN NazaraError(w, <<"Conditional rendering is not supported">>)
    ELSE Issue(w, <<"glBeginConditionalRender">>)

\* Renderer::EndCondition
EndConditionOp(w) ==
    IF NAZARA_DEBUG /\ w.currentContext = Null
    THEN NazaraError(w, <<"No active context">>)
    ELSE IF NAZARA_RENDERER_SAFE /\ ~w.s_capabilities.ConditionalRendering
    THEN NazaraError(w, <<"Conditional rendering is not supported">>)
    ELSE Issue(w, <<"glEndConditionalRender">>)

\* Renderer::GetInstanceBuffer
GetInstanceBufferOp(w) ==
    IF NAZARA_RENDERER_SAFE /\ ~w.s_capabilities.Instancing
    THEN [NazaraError(w, <<"Instancing not supported">>)
             EXCEPT !.ret = RetPointer(Null)]
    ELSE [w EXCEPT !.s_updateFlags = @ \cup {"Update_VAO"},
                   !.ret = RetPointer(1)]

\* A draw that leaves the vertex array object bound.
IssueDrawKeepBound(w, command) == Issue(w, <<command>>)

\* The draw command and glBindVertexArray(0).
IssueDraw(w, command) ==
    IF w.s_useVertexArrayObjects
    THEN Issue(Issue(w, <<command>>), <<"glBindVertexArray", w.currentContext, 0>>)
    ELSE Issue(w, <<command>>)

\* An entry point that draws whatever EnsureStateUpdate answered.
DrawRegardless(w, command) ==
    IssueDraw(IF ~w.ok
              THEN NazaraError(w, <<"Failed to update states", w.lastError>>)
              ELSE w,
              command)

\* What a draw entry point does with the answer of EnsureStateUpdate.
DrawIfUpdated(w, command) ==
    IF ~w.ok
    THEN NazaraError(w, <<"Failed to update states", w.lastError>>)
    ELSE IssueDraw(w, command)

\* The common end of the four draw entry points: EnsureStateUpdate, then
\* the draw command, then the vertex array object is unbound.
ReconcileAndDraw(w, gen, command) ==
    DrawIfUpdated(EnsureStateUpdate(w, gen), command)

\* Renderer::DrawPrimitives
DrawPrimitivesOp(w, gen) ==
    IF NAZARA_DEBUG /\ w.currentContext = Null
    THEN NazaraError(w, <<"No active context">>)
    ELSE ReconcileAndDraw(EnableInstancing(w, FALSE), gen, "glDrawArrays")

\* Renderer::DrawIndexedPrimitives
DrawIndexedPrimitivesOp(w, gen) ==
    IF NAZARA_DEBUG /\ w.currentContext = Null
    THEN NazaraError(w, <<"No active context">>)
    ELSE IF NAZARA_RENDERER_SAFE /\ w.s_indexBuffer = Null
    THEN NazaraError(w, <<"No index buffer">>)
    ELSE ReconcileAndDraw(EnableInstancing(w, FALSE), gen, "glDrawElements")

\* The checks shared by the two instanced entry points (lines 283-308 and
\* 384-403); "" when they pass.
InstancedCheck(w, instanceCount, indexed) ==
    IF ~w.s_capabilities.Instancing THEN "Instancing not supported"
    ELSE IF indexed /\ w.s_indexBuffer = Null THEN "No index buffer"
    ELSE IF instanceCount = 0 THEN "Instance count must be over zero"
    ELSE IF instanceCount > w.s_instanceBuffer.vertexCount
    THEN "Instance count is over maximum instance count"
    ELSE ""

\* An entry point that switches instancing on before it checks the count.
DrawPrimitivesInstancedEnableFirst(w, gen, instanceCount) ==
    IF NAZARA_DEBUG /\ w.currentContext = Null
    THEN NazaraError(w, <<"No active context">>)
    ELSE IF NAZARA_RENDERER_SAFE /\ InstancedCheck(w, instanceCount, FALSE) # ""
    THEN NazaraError(EnableInstancing(w, TRUE),
                     <<InstancedCheck(w, instanceCount, FALSE)>>)
    ELSE ReconcileAndDraw(EnableInstancing(w, TRUE), gen, "glDrawArraysInstanced")

\* Renderer::DrawPrimitivesInstanced
DrawPrimitivesInstancedOp(w, gen, instanceCount) ==
    IF NAZARA_DEBUG /\ w.currentContext = Null
    THEN NazaraError(w, <<"No active context">>)
    ELSE IF NAZARA_RENDERER_SAFE /\ InstancedCheck(w, instanceCount, FALSE) # ""
    THEN NazaraError(w, <<InstancedCheck(w, instanceCount, FALSE)>>)
    ELSE ReconcileAndDraw(EnableInstancing(w, TRUE), gen, "glDrawArraysInstanced")

\* Renderer::DrawIndexedPrimitivesInstanced
DrawIndexedPrimitivesInstancedOp(w, gen, instanceCount) ==
    IF NAZARA_DEBUG /\ w.currentContext = Null
    THEN NazaraError(w, <<"No active context">>)
    ELSE IF NAZARA_RENDERER_SAFE /\ InstancedCheck(w, instanceCount, TRUE) # ""
    THEN NazaraError(w, <<InstancedCheck(w, instanceCount, TRUE)>>)
    ELSE ReconcileAndDraw(EnableInstancing(w, TRUE), gen, "glDrawElementsInstanced")

(***************************************************************************)
(* Initialize and Uninitialize.                                            *)
(***************************************************************************)
MaxReferences == 3

\* What the backend answers to the capability queries of Initialize.
BackendCapabilities ==
    [Instancing |-> TRUE, FP64 |-> FALSE, ConditionalRendering |-> TRUE]

\* The steps of Initialize after Utility::Initialize and the increment of
\* the counter, in the order of the code.
SetupSteps ==
    << "OpenGL", "State", "Fill", "InstanceBuffer", "RenderBuffer", "Shader",
       "Texture", "TextureSampler", "UberShader", "Create", "AttachFragment",
       "AttachVertex", "Link", "DebugSimple" >>

\* The steps that can fail, and "" for a set-up without failure.
FailPoints ==
    {"", "Utility", "OpenGL", "Fill", "RenderBuffer", "Shader", "Texture",
     "TextureSampler", "UberShader", "Create", "AttachFragment", "AttachVertex",
     "Link"}

\* The error Initialize reports when `step` fails.
SetupError(step) ==
    CASE step = "Utility" -> "Failed to initialize Utility module"
      [] step = "OpenGL" -> "Failed to initialize OpenGL"
      [] step = "Fill" -> "Failed to fill fullscreen quad buffer"
      [] step = "RenderBuffer" -> "Failed to initialize render buffers"
      [] step = "Shader" -> "Failed to initialize shaders"
      [] step = "Texture" -> "Failed to initialize textures"
      [] step = "TextureSampler" -> "Failed to initialize texture samplers"
      [] step = "UberShader" -> "Failed to initialize uber shaders"
      [] step = "Create" -> "Failed to create debug shader"
      [] step = "AttachFragment" -> "Failed to attach fragment stage"
      [] step = "AttachVertex" -> "Failed to attach vertex stage"
      [] step = "Link" -> "Failed to link shader"

\* X::Initialize() of a sub-system, with its answer.
ModuleInitialize(w, module, ok) ==
    [Issue(w, <<"Initialize", module, ok>>)
        EXCEPT !.modules = IF ok THEN @ \cup {module} ELSE @]

\* X::Uninitialize() of a sub-system.
ModuleUninitialize(w, module) ==
    [Issue(w, <<"Uninitialize", module>>) EXCEPT !.modules = @ \ {module}]

\* Lines 625-708: the tracked state is reset.
ResetState(w) ==
    [w EXCEPT
        !.s_matrices =
            [t \in MatrixTypes |->
                [matrix |-> Identity, updated |-> TRUE, location |-> -1]],
        !.s_capabilities = BackendCapabilities,
        !.s_states = 0,
        !.s_indexBuffer = Null,
        !.s_shader = Null,
        !.s_target = Null,
        !.s_targetSize = 0,
        !.s_textureUnits =
            [u \in TextureUnits |->
                [texture |-> Null, sampler |-> [config |-> 0, mipmaps |-> FALSE],
                 samplerUpdated |-> FALSE]],
        !.s_useSamplerObjects = TRUE,
        !.s_useVertexArrayObjects = TRUE,
        !.s_updateFlags = {"Update_Matrices", "Update_Shader", "Update_VAO"},
        !.s_vertexBuffer = Null]

\* One step of the set-up that did not fail.
SetupStep(w, step) ==
    CASE step \in {"OpenGL", "RenderBuffer", "Shader", "Texture",
                   "TextureSampler", "UberShader"} ->
            ModuleInitialize(w, step, TRUE)
      [] step = "State" -> ResetState(w)
      [] step = "Fill" -> Issue(w, <<"Fill", "s_fullscreenQuadBuffer", TRUE>>)
      [] step = "InstanceBuffer" ->
            IF w.s_capabilities.Instancing
            THEN [Issue(w, <<"Reset", "s_instanceBuffer">>)
                     EXCEPT !.s_instanceBuffer =
                         [declaration |-> Null,
                          vertexCount |-> InstanceBufferCapacity]]
            ELSE w
      [] step \in {"Create", "AttachFragment", "AttachVertex", "Link"} ->
            Issue(w, <<"DebugShader", step, TRUE>>)
      [] step = "DebugSimple" ->
            [Issue(w, <<"Register", "DebugSimple">>)
                EXCEPT !.modules = @ \cup {"DebugSimple"}]

\* The call of `step` that fails.
FailedStep(w, step) ==
    CASE step \in {"OpenGL", "RenderBuffer", "Shader", "Texture",
                   "TextureSampler", "UberShader"} ->
            ModuleInitialize(w, step, FALSE)
      [] step = "Fill" -> Issue(w, <<"Fill", "s_fullscreenQuadBuffer", FALSE>>)
      [] step \in {"Create", "AttachFragment", "AttachVertex", "Link"} ->
            Issue(w, <<"DebugShader", step, FALSE>>)

\* A teardown that deletes the objects of the current context only.
ReleaseVAOsCurrentOnly(w) ==
    [EvictEach(w, {e \in Entries(w) : e[1] = w.currentContext})
        EXCEPT !.s_vaos = <<>>]

\* Lines 1446-1458: OpenGL::DeleteVertexArray(context, vao) for every entry
\* of every context, then s_vaos.clear().
ReleaseVAOs(w) ==
    [EvictEach(w, Entries(w)) EXCEPT !.s_vaos = <<>>]

\* Lines 1431-1438
UninitializeModules(w) ==
    ModuleUninitialize(
      ModuleUninitialize(
        ModuleUninitialize(
          ModuleUninitialize(
            ModuleUninitialize(
              ModuleUninitialize(
                [Issue(w, <<"Unregister", "DebugSimple">>)
                    EXCEPT !.modules = @ \ {"DebugSimple"}],
                "UberShader"),
              "TextureSampler"),
            "Texture"),
          "Shader"),
        "RenderBuffer"),
      "DebugDrawer")

\* Lines 1440-1444
ResetBuffers(w) ==
    [Issue(Issue(w, <<"Reset", "s_fullscreenQuadBuffer">>),
           <<"Reset", "s_instanceBuffer">>)
        EXCEPT !.s_textureUnits = <<>>,
               !.s_instanceBuffer = [declaration |-> Null, vertexCount |-> 0]]

\* Lines 1428-1465: the teardown.
Teardown(w) ==
    ModuleUninitialize(
      ModuleUninitialize(
        ReleaseVAOs(
          ResetBuffers(
            UninitializeModules([w EXCEPT !.s_moduleReferenceCounter = 0]))),
        "OpenGL"),
      "Utility")

\* An Uninitialize that tears down whatever the counter holds.
UninitializeAlways(w) == Teardown(w)

\* Renderer::Uninitialize
UninitializeOp(w) ==
    IF w.s_moduleReferenceCounter # 1
    THEN IF w.s_moduleReferenceCounter > 1
         THEN [w EXCEPT !.s_moduleReferenceCounter = @ - 1]
         ELSE w
    ELSE Teardown(w)

\* A failure that returns without the CallOnExit.
FailSetupNoRollback(w, step) ==
    [NazaraError(FailedStep(w, step), <<SetupError(step)>>)
        EXCEPT !.ret = RetBool(FALSE)]

\* A step fails after the counter was incremented: the error is reported
\* and the CallOnExit runs Renderer::Uninitialize as the function returns.
FailSetup(w, step) ==
    [UninitializeOp(NazaraError(FailedStep(w, step), <<SetupError(step)>>))
        EXCEPT !.ret = RetBool(FALSE)]

\* An allocation failure that is reported and leaves the capability.
InstanceBufferFailedKeepsCapability(w) ==
    IF w.s_capabilities.Instancing
    THEN NazaraError(Issue(w, <<"Reset", "s_instanceBuffer", FALSE>>),
                     <<"Failed to create instancing buffer">>)
    ELSE w

\* Lines 726-740: s_instanceBuffer.Reset throws; the capability is removed
\* and the set-up goes on.
InstanceBufferFailed(w) ==
    IF w.s_capabilities.Instancing
    THEN [NazaraError(Issue(w, <<"Reset", "s_instanceBuffer", FALSE>>),
                      <<"Failed to create instancing buffer">>)
             EXCEPT !.s_capabilities.Instancing = FALSE]
    ELSE w

RECURSIVE RunSetup(_, _, _)
\* Lines 613-822: the steps from index i on; `failAt` is the one that fails.
RunSetup(w, i, failAt) ==
    IF i > Len(SetupSteps) THEN [w EXCEPT !.ret = RetBool(TRUE)]
    ELSE IF SetupSteps[i] = failAt /\ failAt = "InstanceBuffer"
    THEN RunSetup(InstanceBufferFailed(w), i + 1, failAt)
    ELSE IF SetupSteps[i] = failAt THEN FailSetup(w, failAt)
    ELSE RunSetup(SetupStep(w, SetupSteps[i]), i + 1, failAt)

\* Renderer::Initialize
InitializeOp(w, failAt) ==
    IF w.s_moduleReferenceCounter > 0
    THEN [w EXCEPT !.s_moduleReferenceCounter = @ + 1, !.ret = RetBool(TRUE)]
    ELSE IF failAt = "Utility"
    THEN [NazaraError(ModuleInitialize(w, "Utility", FALSE),
                      <<SetupError("Utility")>>)
             EXCEPT !.ret = RetBool(FALSE)]
    ELSE RunSetup([ModuleInitialize(w, "Utility", TRUE)
                      EXCEPT !.s_moduleReferenceCounter = @ + 1],
                  1, failAt)

\* Renderer::IsInitialized
IsInitializedOp(w) == [w EXCEPT !.ret = RetBool(w.s_moduleReferenceCounter # 0)]

(***************************************************************************)
(* The state Renderer::Initialize leaves (lines 625-708): identity         *)
(* matrices without location, nothing bound, Update_Matrices |             *)
(* Update_Shader | Update_VAO.  The capabilities are the backend's.        *)
(***************************************************************************)
InitRenderer ==
    /\ s_matrices =
          [t \in MatrixTypes |->
              [matrix |-> Identity, updated |-> TRUE, location |-> -1]]
    /\ s_textureUnits =
          [u \in TextureUnits |->
              [texture |-> Null, sampler |-> [config |-> 0, mipmaps |-> FALSE],
               samplerUpdated |-> FALSE]]
    /\ s_dirtyTextureUnits = <<>>
    /\ s_vaos = <<>>
    /\ s_currentVAO = 0
    /\ s_states = 0
    /\ s_targetSize = 0
    /\ s_updateFlags = {"Update_Matrices", "Update_Shader", "Update_VAO"}
    /\ s_indexBuffer = Null
    /\ s_target = Null
    /\ s_shader = Null
    /\ s_vertexBuffer = Null
    /\ s_instancing = FALSE
    /\ glVertexArrays = [c \in Contexts |-> {}]
    /\ queuedDeletes = [c \in Contexts |-> {}]
    /\ glBoundTextures = [u \in TextureUnits |-> Null]
    /\ glUniforms = [p \in Shaders |-> [t \in MatrixTypes |-> <<>>]]
    /\ glTextureSamplers = [t \in Textures \cup {ForeignTexture} |-> <<>>]
    /\ cmds = <<>>
    /\ report = <<>>
    /\ ret = RetBool(TRUE)
    /\ s_moduleReferenceCounter = 1
    /\ modules = Modules
    /\ last = Other
    /\ setCount = 0
    /\ viewProjSet = FALSE

(***************************************************************************)
(* The matrix cache on its own: SetMatrix and GetMatrix on every slot.     *)
(***************************************************************************)
InitMatrix ==
    /\ InitRenderer
    /\ s_capabilities = [Instancing |-> TRUE, FP64 |-> FALSE,
                         ConditionalRendering |-> TRUE]
    /\ s_instanceBuffer = [declaration |-> Null, vertexCount |-> 0]
    /\ s_useSamplerObjects = TRUE
    /\ s_useVertexArrayObjects = TRUE
    /\ currentContext = 1

SetMatrix(type, matrix) ==
    /\ setCount < MaxSetMatrix
    /\ setCount' = setCount + 1
    /\ viewProjSet' = IF type = "ViewProj" THEN TRUE
                      ELSE IF type \in {"View", "Projection"} THEN FALSE
                      ELSE viewProjSet
    /\ Commit(SetMatrixOp(World, type, matrix))
    /\ last' = Other

GetMatrix(type) ==
    /\ Commit(GetMatrixOp(World, type))
    /\ last' = Other
    /\ UNCHANGED <<setCount, viewProjSet>>

NextMatrix ==
    \/ \E type \in MatrixTypes, matrix \in MatrixValues : SetMatrix(type, matrix)
    \/ \E type \in MatrixTypes : GetMatrix(type)

SpecMatrix == InitMatrix /\ [][NextMatrix]_vars

(***************************************************************************)
(* The renderer with its vertex-array-object cache: contexts, buffers,     *)
(* draws and release notifications.                                        *)
(***************************************************************************)

\* The names glGenVertexArrays may return in the current context: any name
\* that is not in use there.  0 when there is none (or no context).
GenNames ==
    IF currentContext = Null THEN {0}
    ELSE IF VAONames \ glVertexArrays[currentContext] = {} THEN {0}
    ELSE VAONames \ glVertexArrays[currentContext]

\* The calls below leave the matrix history alone.
Observed(call) ==
    /\ last' = call
    /\ UNCHANGED <<setCount, viewProjSet>>

ContextSetActive(context) ==
    /\ Commit(ContextSetActiveOp(World, context))
    /\ Observed(Other)

SetShader(shader, isValid) ==
    /\ Commit(SetShaderOp(World, shader, isValid))
    /\ Observed(Other)

SetTarget(target, isRenderable, activated) ==
    /\ Commit(SetTargetOp(World, target, isRenderable, activated))
    /\ Observed(Other)

SetIndexBuffer(indexBuffer) ==
    /\ Commit(SetIndexBufferOp(World, indexBuffer, TRUE))
    /\ Observed(Other)

SetVertexBuffer(vertexBuffer) ==
    /\ Commit(SetVertexBufferOp(World, vertexBuffer, TRUE))
    /\ Observed(Other)

\* A draw that would need a vertex array name when the context has none left
\* is not taken.
DrawPrimitives ==
    \E gen \in GenNames :
        /\ ~DrawPrimitivesOp(World, gen).blocked
        /\ Commit(DrawPrimitivesOp(World, gen))
        /\ Observed(Draw("DrawPrimitives", 0))

DrawIndexedPrimitives ==
    \E gen \in GenNames :
        /\ ~DrawIndexedPrimitivesOp(World, gen).blocked
        /\ Commit(DrawIndexedPrimitivesOp(World, gen))
        /\ Observed(Draw("DrawIndexedPrimitives", 0))

\* An instanced draw that passes its checks reads the declaration of the
\* instance buffer: the caller has set one.
DrawPrimitivesInstanced(instanceCount) ==
    \E gen \in GenNames :
        /\ InstancedCheck(World, instanceCount, FALSE) = ""
              => s_instanceBuffer.declaration # Null
        /\ ~DrawPrimitivesInstancedOp(World, gen, instanceCount).blocked
        /\ Commit(DrawPrimitivesInstancedOp(World, gen, instanceCount))
        /\ Observed(Draw("DrawPrimitivesInstanced", instanceCount))

DrawIndexedPrimitivesInstanced(instanceCount) ==
    \E gen \in GenNames :
        /\ InstancedCheck(World, instanceCount, TRUE) = ""
              => s_instanceBuffer.declaration # Null
        /\ ~DrawIndexedPrimitivesInstancedOp(World, gen, instanceCount).blocked
        /\ Commit(DrawIndexedPrimitivesInstancedOp(World, gen, instanceCount))
        /\ Observed(Draw("DrawIndexedPrimitivesInstanced", instanceCount))

SetRenderStates(states) ==
    /\ Commit(SetRenderStatesOp(World, states))
    /\ Observed(Other)

BeginCondition ==
    /\ Commit(BeginConditionOp(World))
    /\ Observed(Call("BeginCondition"))

EndCondition ==
    /\ Commit(EndConditionOp(World))
    /\ Observed(Call("EndCondition"))

GetInstanceBuffer ==
    /\ Commit(GetInstanceBufferOp(World))
    /\ Observed(Call("GetInstanceBuffer"))

\* The counter is kept below MaxReferences.
Initialize(failAt) ==
    /\ s_moduleReferenceCounter < MaxReferences
    /\ Commit(InitializeOp(World, failAt))
    /\ Observed(Call("Initialize"))

\* `last` keeps the cache entries the call found.
Uninitialize ==
    /\ Commit(UninitializeOp(World))
    /\ Observed(Release("Uninitialize", 0, Entries(World)))

IsInitialized ==
    /\ Commit(IsInitializedOp(World))
    /\ Observed(Call("IsInitialized"))

\* The cache entries a call removed.
Evicted(w) == Entries(World) \ Entries(w)

\* The release signals of the resources, delivered to the renderer's slots.
IndexBufferRelease(indexBuffer) ==
    /\ Commit(OnIndexBufferRelease(World, indexBuffer))
    /\ Observed(Release("IndexBuffer", indexBuffer,
                        Evicted(OnIndexBufferRelease(World, indexBuffer))))

VertexBufferRelease(vertexBuffer) ==
    /\ Commit(OnVertexBufferRelease(World, vertexBuffer))
    /\ Observed(Release("VertexBuffer", vertexBuffer,
                        Evicted(OnVertexBufferRelease(World, vertexBuffer))))

VertexDeclarationRelease(vertexDeclaration) ==
    /\ Commit(OnVertexDeclarationRelease(World, vertexDeclaration))
    /\ Observed(Release("VertexDeclaration", vertexDeclaration,
                        Evicted(OnVertexDeclarationRelease(World, vertexDeclaration))))

(***************************************************************************)
(* Context switches, setters and draws, without any release.               *)
(***************************************************************************)
InitCache ==
    /\ InitRenderer
    /\ s_capabilities = [Instancing |-> TRUE, FP64 |-> FALSE,
                         ConditionalRendering |-> TRUE]
    /\ s_instanceBuffer = [declaration |-> 2, vertexCount |-> InstanceBufferCapacity]
    /\ s_useSamplerObjects = TRUE
    /\ s_useVertexArrayObjects = TRUE
    /\ currentContext = Null

NextDraw ==
    \/ \E context \in Contexts : ContextSetActive(context)
    \/ SetShader(1, TRUE)
    \/ SetTarget(1, TRUE, TRUE)
    \/ \E vertexBuffer \in VertexBuffers : SetVertexBuffer(vertexBuffer)
    \/ DrawPrimitives
    \/ \E instanceCount \in InstanceCounts : DrawPrimitivesInstanced(instanceCount)

SpecDraw == InitCache /\ [][NextDraw]_vars

(***************************************************************************)
(* The vertex-array-object cache: vertex buffers are set, drawn with and   *)
(* released in two contexts.                                               *)
(***************************************************************************)
NextCache ==
    \/ \E context \in Contexts : ContextSetActive(context)
    \/ SetShader(1, TRUE)
    \/ SetTarget(1, TRUE, TRUE)
    \/ \E vertexBuffer \in VertexBuffers : SetVertexBuffer(vertexBuffer)
    \/ DrawPrimitives
    \/ DrawPrimitivesInstanced(1)
    \/ \E vertexBuffer \in VertexBuffers : VertexBufferRelease(vertexBuffer)

SpecCache == InitCache /\ [][NextCache]_vars

(***************************************************************************)
(* The four kinds of key resource and their release: one vertex buffer,    *)
(* drawn with and without the index buffer and the instance buffer.        *)
(***************************************************************************)
NextRelease ==
    \/ \E context \in Contexts : ContextSetActive(context)
    \/ SetShader(1, TRUE)
    \/ SetTarget(1, TRUE, TRUE)
    \/ \E indexBuffer \in IndexBuffers \cup {Null} : SetIndexBuffer(indexBuffer)
    \/ SetVertexBuffer(1)
    \/ /\ Commit(SetVertexBufferOp(World, Null, TRUE))
       /\ Observed(Release("SetVertexBuffer", Null, {}))
    \/ DrawPrimitives
    \/ DrawIndexedPrimitives
    \/ DrawPrimitivesInstanced(1)
    \/ \E indexBuffer \in IndexBuffers : IndexBufferRelease(indexBuffer)
    \/ VertexBufferRelease(1)
    \/ \E vertexDeclaration \in Declarations :
          VertexDeclarationRelease(vertexDeclaration)

SpecRelease == InitCache /\ [][NextRelease]_vars

(***************************************************************************)
(* The entry points on every backend: with and without instancing,         *)
(* conditional rendering and vertex array objects, in one context.         *)
(***************************************************************************)
InitEntry ==
    /\ InitRenderer
    /\ s_capabilities \in
          [Instancing : BOOLEAN, FP64 : {FALSE}, ConditionalRendering : BOOLEAN]
    /\ s_instanceBuffer =
          IF s_capabilities.Instancing
          THEN [declaration |-> 2, vertexCount |-> InstanceBufferCapacity]
          ELSE [declaration |-> Null, vertexCount |-> 0]
    /\ s_useSamplerObjects = TRUE
    /\ s_useVertexArrayObjects \in BOOLEAN
    /\ currentContext = Null

NextEntry ==
    \/ ContextSetActive(1)
    \/ SetShader(1, TRUE)
    \/ SetTarget(1, TRUE, TRUE)
    \/ SetIndexBuffer(1)
    \/ \E vertexBuffer \in VertexBuffers : SetVertexBuffer(vertexBuffer)
    \/ DrawPrimitives
    \/ DrawIndexedPrimitives
    \/ \E instanceCount \in InstanceCounts : DrawPrimitivesInstanced(instanceCount)
    \/ \E instanceCount \in InstanceCounts :
          DrawIndexedPrimitivesInstanced(instanceCount)
    \/ BeginCondition
    \/ EndCondition
    \/ GetInstanceBuffer

SpecEntry == InitEntry /\ [][NextEntry]_vars

(***************************************************************************)
(* Two programs, the matrices and the render states, drawn with in one     *)
(* context.                                                                *)
(***************************************************************************)
RenderStates == {0, 1}

NextShader ==
    \/ ContextSetActive(1)
    \/ \E shader \in Shaders : SetShader(shader, TRUE)
    \/ \E target \in Targets : SetTarget(target, TRUE, TRUE)
    \/ SetVertexBuffer(1)
    \/ \E states \in RenderStates : SetRenderStates(states)
    \/ \E type \in BaseMatrixTypes, matrix \in MatrixValues :
          SetMatrix(type, matrix)
    \/ DrawPrimitives

SpecShader == InitCache /\ [][NextShader]_vars

(***************************************************************************)
(* Two programs that are bound, released and drawn with in one context     *)
(* while any of the twelve matrices is set.  A draw made before            *)
(* SetVertexBuffer fails after its matrix step.  A shader that is not      *)
(* valid is offered while none is tracked.                                 *)
(***************************************************************************)
NextUniform ==
    \/ ContextSetActive(1)
    \/ \E shader \in Shaders : SetShader(shader, TRUE)
    \/ s_shader = Null /\ SetShader(1, FALSE)
    \/ SetTarget(1, TRUE, TRUE)
    \/ SetVertexBuffer(1)
    \/ \E type \in MatrixTypes, matrix \in MatrixValues :
          SetMatrix(type, matrix)
    \/ \E shader \in Shaders :
          /\ Commit(OnShaderReleased(World, shader))
          /\ Observed(Release("ShaderReleased", shader, {}))
    \/ DrawPrimitives

SpecUniform == InitCache /\ [][NextUniform]_vars

(***************************************************************************)
(* The life cycle: Initialize and Uninitialize in any order and with any   *)
(* failure, and between them draws in two contexts that fill the cache.    *)
(* Before the first Initialize the globals hold their static               *)
(* initialisation (zero).                                                  *)
(***************************************************************************)
InitLifecycle ==
    /\ s_moduleReferenceCounter = 0
    /\ modules = {}
    /\ s_matrices =
          [t \in MatrixTypes |->
              [matrix |-> <<0, 0, 0, 0>>, updated |-> FALSE, location |-> 0]]
    /\ s_textureUnits = <<>>
    /\ s_dirtyTextureUnits = <<>>
    /\ s_vaos = <<>>
    /\ s_currentVAO = 0
    /\ s_instanceBuffer = [declaration |-> Null, vertexCount |-> 0]
    /\ s_states = 0
    /\ s_targetSize = 0
    /\ s_updateFlags = {}
    /\ s_indexBuffer = Null
    /\ s_target = Null
    /\ s_shader = Null
    /\ s_vertexBuffer = Null
    /\ s_capabilities =
          [Instancing |-> FALSE, FP64 |-> FALSE, ConditionalRendering |-> FALSE]
    /\ s_instancing = FALSE
    /\ s_useSamplerObjects = FALSE
    /\ s_useVertexArrayObjects = FALSE
    /\ currentContext = Null
    /\ glVertexArrays = [c \in Contexts |-> {}]
    /\ queuedDeletes = [c \in Contexts |-> {}]
    /\ glBoundTextures = [u \in TextureUnits |-> Null]
    /\ glUniforms = [p \in Shaders |-> [t \in MatrixTypes |-> <<>>]]
    /\ glTextureSamplers = [t \in Textures \cup {ForeignTexture} |-> <<>>]
    /\ cmds = <<>>
    /\ report = <<>>
    /\ ret = RetVoid
    /\ last = Other
    /\ setCount = 0
    /\ viewProjSet = FALSE

\* The renderer is used while it is initialized.
NextLifecycle ==
    \/ \E failAt \in FailPoints : Initialize(failAt)
    \/ Uninitialize
    \/ IsInitialized
    \/ \E context \in Contexts :
          s_moduleReferenceCounter > 0 /\ ContextSetActive(context)
    \/ s_moduleReferenceCounter > 0 /\ SetShader(1, TRUE)
    \/ s_moduleReferenceCounter > 0 /\ SetTarget(1, TRUE, TRUE)
    \/ \E vertexBuffer \in VertexBuffers :
          s_moduleReferenceCounter > 0 /\ SetVertexBuffer(vertexBuffer)
    \/ /\ s_moduleReferenceCounter > 0
       /\ Len(s_dirtyTextureUnits) < MaxDirtyUnits
       /\ Commit(SetTextureOp(World, 0, 1))
       /\ Observed(Release("SetTexture", <<0, 1>>, {}))
    \/ s_moduleReferenceCounter > 0 /\ DrawPrimitives

SpecLifecycle == InitLifecycle /\ [][NextLifecycle]_vars

\* Set-ups whose instance buffer cannot be allocated, the calls that need
\* instancing, targets that are set, unset or fail to activate, and Clear
\* with and without flags.
NextInstancing ==
    \/ \E failAt \in {"", "InstanceBuffer"} : Initialize(failAt)
    \/ Uninitialize
    \/ s_moduleReferenceCounter > 0 /\ ContextSetActive(1)
    \/ s_moduleReferenceCounter > 0 /\ SetShader(1, TRUE)
    \/ \E target \in {1, Null}, activated \in BOOLEAN :
          s_moduleReferenceCounter > 0 /\ SetTarget(target, TRUE, activated)
    \/ \E flags \in {0, 1}, faults \in BOOLEAN :
          /\ s_moduleReferenceCounter > 0
          /\ Commit(ClearOp(World, flags, faults))
          /\ Observed(Release("Clear", flags, {}))
    \/ s_moduleReferenceCounter > 0 /\ SetVertexBuffer(1)
    \/ s_moduleReferenceCounter > 0 /\ SetIndexBuffer(1)
    \/ s_moduleReferenceCounter > 0 /\ DrawPrimitives
    \/ \E instanceCount \in {0, 1} :
          s_moduleReferenceCounter > 0 /\ DrawPrimitivesInstanced(instanceCount)
    \/ \E instanceCount \in {0, 1} :
          /\ s_moduleReferenceCounter > 0
          /\ DrawIndexedPrimitivesInstanced(instanceCount)
    \/ s_moduleReferenceCounter > 0 /\ GetInstanceBuffer

SpecInstancing == InitLifecycle /\ [][NextInstancing]_vars

(***************************************************************************)
(* The texture units: textures and samplers are set on two units, textures *)
(* are released, an outside operation binds another texture on a unit, and *)
(* draws reconcile.  SpecTexture does so with two textures and sampler     *)
(* objects, SpecSampler with sampler objects and without.                  *)
(***************************************************************************)
SamplerConfigs == {0, 1}
\* The samplers the callers pass: a TextureSampler is constructed with
\* mip-mapping on.
Samplers == [config : SamplerConfigs, mipmaps : {TRUE}]

InitTexture ==
    /\ InitRenderer
    /\ s_capabilities = [Instancing |-> TRUE, FP64 |-> FALSE,
                         ConditionalRendering |-> TRUE]
    /\ s_instanceBuffer = [declaration |-> 2, vertexCount |-> InstanceBufferCapacity]
    /\ s_useSamplerObjects \in BOOLEAN
    /\ s_useVertexArrayObjects = TRUE
    /\ currentContext = 1

\* The backend has sampler objects.
InitSamplerObjects == InitTexture /\ s_useSamplerObjects

\* The queue of dirty units is kept at MaxDirtyUnits entries.  The outside
\* operation binds the foreign texture on unit 0.
NextTexture ==
    \/ SetShader(1, TRUE)
    \/ SetTarget(1, TRUE, TRUE)
    \/ SetVertexBuffer(1)
    \/ \E unit \in TextureUnits, texture \in Textures \cup {Null} :
          /\ Len(s_dirtyTextureUnits) < MaxDirtyUnits
          /\ Commit(SetTextureOp(World, unit, texture))
          /\ Observed(Release("SetTexture", <<unit, texture>>, {}))
    \/ \E unit \in TextureUnits, sampler \in Samplers :
          /\ Len(s_dirtyTextureUnits) < MaxDirtyUnits
          /\ Commit(SetTextureSamplerOp(World, unit, sampler))
          /\ Observed(Release("SetTextureSampler", <<unit, sampler>>, {}))
    \/ \E texture \in Textures :
          /\ Commit(OnTextureReleased(World, texture))
          /\ Observed(Release("TextureReleased", texture, {}))
    \/ /\ Commit([World EXCEPT !.glBoundTextures[0] = ForeignTexture])
       /\ Observed(Other)
    \/ DrawPrimitives

SpecTexture == InitSamplerObjects /\ [][NextTexture]_vars

\* Texture 1 is set on the two units and released, a second texture with
\* the same mip-mapping need is set on unit 0; the samplers are bound as
\* objects or written onto the texture.
NextSampler ==
    \/ SetShader(1, TRUE)
    \/ SetTarget(1, TRUE, TRUE)
    \/ SetVertexBuffer(1)
    \/ \E unit \in TextureUnits :
          /\ Len(s_dirtyTextureUnits) < MaxDirtyUnits
          /\ Commit(SetTextureOp(World, unit, 1))
          /\ Observed(Release("SetTexture", <<unit, 1>>, {}))
    \/ /\ Len(s_dirtyTextureUnits) < MaxDirtyUnits
       /\ Commit(SetTextureOp(World, 0, ForeignTexture))
       /\ Observed(Release("SetTexture", <<0, ForeignTexture>>, {}))
    \/ \E unit \in TextureUnits, sampler \in Samplers :
          /\ Len(s_dirtyTextureUnits) < MaxDirtyUnits
          /\ Commit(SetTextureSamplerOp(World, unit, sampler))
          /\ Observed(Release("SetTextureSampler", <<unit, sampler>>, {}))
    \/ /\ Commit(OnTextureReleased(World, 1))
       /\ Observed(Release("TextureReleased", 1, {}))
    \/ DrawPrimitives

SpecSampler == InitTexture /\ [][NextSampler]_vars

(***************************************************************************)
(* Properties of the matrix cache (checked under SpecMatrix).              *)
(***************************************************************************)
Matrix(type) == s_matrices[type].matrix
Updated(type) == s_matrices[type].updated

\* What GetMatrix(type) would return in the current state.
GetMatrixResult(type) == GetMatrixOp(World, type).ret.matrix

\* The value UpdateMatrix inverts for an inverse slot: its source slot,
\* brought up to date first when it is stale.
SourceValue(type) ==
    LET src == InverseSource(type)
    IN  (IF Updated(src) THEN World ELSE UpdateMatrix(World, src))
            .s_matrices[src].matrix

\* C1 (as stated): after any sequence of SetMatrix calls on any of the
\* twelve slots, GetMatrix(ViewProj) returns View * Projection computed
\* from the values stored in the View and Projection slots.
C1_ViewProjAlwaysProduct ==
    GetMatrixResult("ViewProj") = Concatenate(Matrix("View"), Matrix("Projection"))

\* C1 (amended): GetMatrix(ViewProj) returns View * Projection from the
\* latest View and Projection values unless ViewProj itself was stored by
\* SetMatrix after the last SetMatrix on View or Projection.
C1_ViewProjProductUnlessSet ==
    ~viewProjSet =>
        GetMatrixResult("ViewProj")
            = Concatenate(Matrix("View"), Matrix("Projection"))

\* C1 witness: View and Projection were set to two matrices that do not
\* commute and GetMatrix(ViewProj) has returned their product in order.
C1_Witness ==
    /\ ~viewProjSet
    /\ Matrix("View") = MatS
    /\ Matrix("Projection") = MatA
    /\ Updated("ViewProj")
    /\ ret = RetMatrix(Concatenate(MatS, MatA))
    /\ ret.matrix = Matrix("ViewProj")
    /\ Concatenate(MatS, MatA) # Concatenate(MatA, MatS)

\* C2 (as stated): SetMatrix on a base slot marks stale, in the same call,
\* every slot transitively derived from it, leaves the updated flag of every
\* other slot as it was, and recomputes no value.
C2_CascadeIsTransitiveClosure ==
    [][\A type \in BaseMatrixTypes, matrix \in MatrixValues :
          SetMatrix(type, matrix) =>
              \A t \in MatrixTypes \ {type} :
                  /\ t \in DerivedFrom(type) => ~s_matrices'[t].updated
                  /\ t \notin DerivedFrom(type) =>
                        s_matrices'[t].updated = s_matrices[t].updated
                  /\ s_matrices'[t].matrix = s_matrices[t].matrix]_vars

\* C3: a GetMatrix on a stale inverse slot whose source matrix is singular
\* reports a warning, returns the value the slot held before the read and
\* leaves that stored value unchanged (the slot is marked updated).
C3_SingularInverseKeepsValue ==
    [][\A type \in InverseMatrixTypes :
          (/\ GetMatrix(type)
           /\ ~Updated(type)
           /\ GetDeterminant(SourceValue(type)) = 0)
          => /\ \E i \in 1..Len(report') : report'[i][1] = "Warning"
             /\ \A i \in 1..Len(report') : report'[i][1] # "Error"
             /\ ret' = RetMatrix(Matrix(type))
             /\ s_matrices'[type].matrix = Matrix(type)
             /\ s_matrices'[type].updated]_vars

\* C3 witness: View is singular, InvView was read and still holds the
\* inverse of the previous View, returned with a warning.
C3_Witness ==
    /\ Matrix("View") = MatS
    /\ Matrix("InvView") = MatA
    /\ Updated("InvView")
    /\ ret = RetMatrix(MatA)
    /\ report = << <<"Warning", <<"Failed to inverse matrix", "View">>>> >>


(***************************************************************************)
(* Properties of the vertex-array-object cache and of the draws.           *)
(***************************************************************************)

\* The keys of the map of `context`, none when the context has no map.
KeysOf(context) ==
    IF context \in DOMAIN s_vaos THEN DOMAIN s_vaos[context] ELSE {}

\* The handles the map of `context` holds; 0 is the null handle.
HandlesOf(context) == {s_vaos[context][k] : k \in KeysOf(context)}

\* The last call issued the backend command `name`.
Issued(name) == \E i \in DOMAIN cmds : cmds[i][1] = name

DrawKinds ==
    {"DrawPrimitives", "DrawIndexedPrimitives", "DrawPrimitivesInstanced",
     "DrawIndexedPrimitivesInstanced"}

DrawCommands ==
    {"glDrawArrays", "glDrawElements", "glDrawArraysInstanced",
     "glDrawElementsInstanced"}

DrawIssued == \E i \in DOMAIN cmds : cmds[i][1] \in DrawCommands

ErrorReported == \E i \in DOMAIN report : report[i][1] = "Error"

ErrorReport(msg) == << <<"Error", msg>> >>

\* The last call passed the preconditions of EnsureStateUpdate.
Reconciled == cmds # <<>> /\ cmds[1][1] = "EnsureTargetUpdated"

\* A step that is a draw whose reconciliation resolves a vertex array
\* object, and the key it resolves.
ResolvingStep ==
    /\ Reconciled'
    /\ s_vertexBuffer # Null
    /\ ("Update_VAO" \in s_updateFlags \/ s_instancing' # s_instancing)

StepKey ==
    << s_indexBuffer, s_vertexBuffer, VertexDeclarationOf(s_vertexBuffer),
       IF s_instancing' THEN s_instanceBuffer.declaration ELSE Null >>

\* C4 as stated: in every context map, two entries with different keys hold
\* two different handles (the map holds one handle per key by construction).
C4_DistinctKeysDistinctHandles ==
    \A c \in DOMAIN s_vaos :
        \A k1, k2 \in DOMAIN s_vaos[c] :
            k1 # k2 => s_vaos[c][k1] # s_vaos[c][k2]

\* C4: a resolution whose key is in the map of the current context creates
\* no object, leaves the maps as they are and yields the handle the map
\* holds; in every context map two entries with different keys whose builds
\* succeeded (handle other than 0) hold two different handles.
C4_SameKeySameHandle ==
    /\ [](\A c \in DOMAIN s_vaos :
             \A k1, k2 \in DOMAIN s_vaos[c] :
                 (k1 # k2 /\ s_vaos[c][k1] # 0 /\ s_vaos[c][k2] # 0)
                     => s_vaos[c][k1] # s_vaos[c][k2])
    /\ [][ (ResolvingStep /\ StepKey \in KeysOf(currentContext)) =>
              /\ ~Issued("glGenVertexArrays")'
              /\ s_vaos' = s_vaos
              /\ glVertexArrays' = glVertexArrays
              /\ s_currentVAO' = s_vaos[currentContext][StepKey]
         ]_vars

\* The map of the current context holds two keys with two objects, and a
\* draw has bound one of them without creating any.
C4_Witness ==
    /\ last.kind \in DrawKinds
    /\ DrawIssued
    /\ ~Issued("glGenVertexArrays")
    /\ \E k1, k2 \in KeysOf(currentContext) :
          /\ k1 # k2
          /\ s_vaos[currentContext][k1] # 0
          /\ s_vaos[currentContext][k2] # 0
          /\ s_currentVAO = s_vaos[currentContext][k1]

\* C5: the release of a vertex buffer removes, in the map of every context,
\* exactly the entries whose key holds it and leaves the others with their
\* handles; a resolution of a key the map lacks creates a vertex array
\* object and an entry for the key.
C5_VertexBufferReleaseEvicts ==
    [][ /\ last'.kind = "VertexBuffer" =>
              /\ DOMAIN s_vaos' = DOMAIN s_vaos
              /\ \A c \in DOMAIN s_vaos :
                    /\ DOMAIN s_vaos'[c] =
                           {k \in DOMAIN s_vaos[c] : k[2] # last'.arg}
                    /\ \A k \in DOMAIN s_vaos'[c] : s_vaos'[c][k] = s_vaos[c][k]
        /\ (ResolvingStep /\ StepKey \notin KeysOf(currentContext)) =>
              /\ Issued("glGenVertexArrays")'
              /\ StepKey \in KeysOf(currentContext)'
      ]_vars

\* Vertex buffer 1 was released while two contexts held an entry for it,
\* and an entry of vertex buffer 2 is still in a map.
C5_Witness ==
    /\ last.kind = "VertexBuffer"
    /\ last.arg = 1
    /\ \E e1, e2 \in last.evicted : e1[1] # e2[1]
    /\ \E c \in DOMAIN s_vaos : \E k \in DOMAIN s_vaos[c] : k[2] = 2

\* C6: after the release of an index buffer, a vertex buffer or a vertex
\* declaration, no map of any context holds a key that references it, be it
\* as base declaration or as instancing declaration.
C6_ReleaseLeavesNoReference ==
    [][ /\ last'.kind = "IndexBuffer" =>
              \A c \in DOMAIN s_vaos' : \A k \in DOMAIN s_vaos'[c] :
                  k[1] # last'.arg
        /\ last'.kind = "VertexBuffer" =>
              \A c \in DOMAIN s_vaos' : \A k \in DOMAIN s_vaos'[c] :
                  k[2] # last'.arg
        /\ last'.kind = "VertexDeclaration" =>
              \A c \in DOMAIN s_vaos' : \A k \in DOMAIN s_vaos'[c] :
                  k[3] # last'.arg /\ k[4] # last'.arg
      ]_vars

\* The instancing declaration was released while it was in a key of the
\* current context and in a key of another context.
C6_Witness ==
    /\ last.kind = "VertexDeclaration"
    /\ \E e1, e2 \in last.evicted :
          /\ e1[1] = currentContext
          /\ e2[1] # currentContext
          /\ e1[2][4] = last.arg
          /\ e2[2][4] = last.arg

\* C7: the objects of a context are exactly the handles its map holds and
\* the ones whose deletion is queued; a deletion is queued only for a
\* context that is not current, stays queued until that context is current,
\* and an object of a context goes away only while that context is current.
C7_DeletedUnderOwningContext ==
    /\ [](\A c \in Contexts :
             /\ glVertexArrays[c] = (HandlesOf(c) \ {0}) \cup queuedDeletes[c]
             /\ (HandlesOf(c) \ {0}) \cap queuedDeletes[c] = {}
             /\ queuedDeletes[c] # {} => currentContext # c)
    /\ [][ \A c \in Contexts :
              /\ glVertexArrays[c] \ glVertexArrays'[c] # {} => currentContext' = c
              /\ queuedDeletes[c] \ queuedDeletes'[c] # {} => currentContext' = c
         ]_vars

\* A release evicted an entry of a context that is not current: the
\* deletion of its object is pending and the object still exists.
C7_Witness ==
    \E e \in last.evicted :
        /\ e[1] # currentContext
        /\ queuedDeletes[e[1]] # {}
        /\ queuedDeletes[e[1]] \subseteq glVertexArrays[e[1]]

\* C8: when a draw command was issued, the handle bound for it is held by
\* the map of the context that is current.
C8_BoundHandleOfCurrentContext ==
    DrawIssued => s_currentVAO \in HandlesOf(currentContext)

\* C9: a draw without context, without shader or without target reports
\* the error of that precondition and issues no backend command.
C9_PreconditionErrors ==
    [][ (\/ last'.kind = "DrawPrimitives"
         \/ /\ last'.kind = "DrawPrimitivesInstanced"
            /\ last'.arg \in 1..InstanceBufferCapacity) =>
          /\ currentContext = Null =>
                /\ report' = ErrorReport(<<"No active context">>)
                /\ cmds' = <<>>
          /\ (currentContext # Null /\ s_shader = Null) =>
                /\ report' = ErrorReport(<<"Failed to update states", "No shader">>)
                /\ cmds' = <<>>
          /\ (currentContext # Null /\ s_shader # Null /\ s_target = Null) =>
                /\ report' = ErrorReport(<<"Failed to update states", "No target">>)
                /\ cmds' = <<>>
      ]_vars

\* A draw with a context and a shader but no target has failed.
C9_Witness ==
    /\ last.kind = "DrawPrimitives"
    /\ report = ErrorReport(<<"Failed to update states", "No target">>)
    /\ cmds = <<>>
    /\ currentContext # Null
    /\ s_shader # Null
    /\ s_target = Null

\* C10: a draw that reported an error has issued no backend command.
C10_FailedDrawIssuesNothing ==
    (last.kind \in DrawKinds /\ ErrorReported) => cmds = <<>>

\* Every enabled component of the declaration of `vertexBuffer` has a type
\* the backend supports.
SupportedVertexBuffer(vertexBuffer) ==
    \A j \in 1..Len(VertexDataComponents) :
        LET c == GetComponent(VertexDeclarationOf(vertexBuffer),
                              VertexDataComponents[j])
        IN  c.enabled => IsComponentTypeSupported(World, c.type)

\* A step that resolves a key the current context's map lacks, with a vertex
\* declaration that holds a component type the backend does not support.
FailedBuildStep ==
    /\ ResolvingStep
    /\ s_useVertexArrayObjects
    /\ StepKey \notin KeysOf(currentContext)
    /\ ~SupportedVertexBuffer(s_vertexBuffer)

\* C14 as stated: after a build that met an unsupported component type the
\* map of the context holds no entry for the key.
C14_FailedBuildEvicted ==
    [][FailedBuildStep => StepKey \notin KeysOf(currentContext)']_vars

\* C14 (amended): a build that meets an unsupported component type makes
\* the draw fail with a reported error and no draw command; the object it
\* created is deleted and the entry of the key stays in the map of the
\* context with the null handle 0.  A later resolution of the key finds that
\* entry, creates nothing and fails as well.
C14_FailedBuildKeepsNullEntry ==
    [][ /\ FailedBuildStep =>
              /\ report' = ErrorReport(<<"Failed to update states",
                                         "Failed to create VAO">>)
              /\ ~DrawIssued'
              /\ Issued("glGenVertexArrays")'
              /\ Issued("glDeleteVertexArrays")'
              /\ glVertexArrays' = glVertexArrays
              /\ StepKey \in KeysOf(currentContext)'
              /\ s_vaos'[currentContext][StepKey] = 0
              /\ s_currentVAO' = 0
        /\ (/\ ResolvingStep
            /\ StepKey \in KeysOf(currentContext)
            /\ s_vaos[currentContext][StepKey] = 0) =>
              /\ report' = ErrorReport(<<"Failed to update states",
                                         "Failed to create VAO">>)
              /\ ~DrawIssued'
              /\ ~Issued("glGenVertexArrays")'
              /\ s_vaos' = s_vaos
      ]_vars

\* A draw has just failed in its build: the object is gone, the entry of
\* the key holds the null handle.
C14_Witness ==
    /\ last.kind = "DrawPrimitives"
    /\ ErrorReported
    /\ Issued("glGenVertexArrays")
    /\ Issued("glDeleteVertexArrays")
    /\ CurrentKey(World) \in KeysOf(currentContext)
    /\ s_vaos[currentContext][CurrentKey(World)] = 0
    /\ glVertexArrays[currentContext] = {}

(***************************************************************************)
(* Properties of the entry points (checked under SpecEntry unless stated). *)
(***************************************************************************)

\* The number of draw commands the last call issued.
NumDrawCommands == Cardinality({i \in DOMAIN cmds : cmds[i][1] \in DrawCommands})

\* C11: with a context, a shader, a target and a vertex buffer of a
\* supported declaration, DrawPrimitives reports no error and issues exactly
\* one draw command; every draw entry point issues exactly one draw command
\* when it reports no error and none when it reports one.
C11_OneDrawCommandOnSuccess ==
    [][ last'.kind \in DrawKinds =>
          /\ ~ErrorReported' => NumDrawCommands' = 1
          /\ ErrorReported' => NumDrawCommands' = 0
          /\ (/\ last'.kind = "DrawPrimitives"
              /\ currentContext # Null
              /\ s_shader # Null
              /\ s_target # Null
              /\ s_vertexBuffer # Null
              /\ SupportedVertexBuffer(s_vertexBuffer))
                => ~ErrorReported' /\ NumDrawCommands' = 1
      ]_vars

\* The first DrawPrimitives after the setters: the vertex array object was
\* created and one glDrawArrays was issued.
C11_Witness ==
    /\ last.kind = "DrawPrimitives"
    /\ ~ErrorReported
    /\ Issued("glGenVertexArrays")
    /\ NumDrawCommands = 1
    /\ cmds[Len(cmds) - 1] = <<"glDrawArrays">>

InstancedKinds == {"DrawPrimitivesInstanced", "DrawIndexedPrimitivesInstanced"}

\* C12: an instanced draw whose instance count is zero or above the vertex
\* count of the instance buffer reports an error, issues no command and
\* leaves the instancing mode and the update flags as they were; when the
\* checks before the count pass, the error is the one of the count.
C12_BadInstanceCountRejected ==
    [][ (/\ last'.kind \in InstancedKinds
         /\ (last'.arg = 0 \/ last'.arg > s_instanceBuffer.vertexCount)) =>
          /\ ErrorReported'
          /\ cmds' = <<>>
          /\ s_instancing' = s_instancing
          /\ s_updateFlags' = s_updateFlags
          /\ (/\ currentContext # Null
              /\ s_capabilities.Instancing
              /\ (last'.kind = "DrawIndexedPrimitivesInstanced"
                     => s_indexBuffer # Null))
                => report' = ErrorReport(
                       IF last'.arg = 0
                       THEN <<"Instance count must be over zero">>
                       ELSE <<"Instance count is over maximum instance count">>)
      ]_vars

\* After a plain draw that left no update flag, an instanced draw with one
\* instance too many was rejected: instancing is still off, no flag is set.
C12_Witness ==
    /\ last.kind = "DrawPrimitivesInstanced"
    /\ last.arg = InstanceBufferCapacity + 1
    /\ report = ErrorReport(<<"Instance count is over maximum instance count">>)
    /\ cmds = <<>>
    /\ s_vertexBuffer # Null
    /\ ~s_instancing
    /\ s_updateFlags = {}

ConditionKinds == {"BeginCondition", "EndCondition"}

\* C20: without the instancing capability an instanced draw and
\* GetInstanceBuffer report an error and issue no command, the draw leaves
\* the instancing mode and the update flags alone and GetInstanceBuffer
\* returns no buffer and sets no flag; without the conditional rendering
\* capability BeginCondition and EndCondition report an error and issue no
\* command.  With a context current (GetInstanceBuffer needs none) the
\* error is the one of the capability.
C20_AbsentCapabilityRejected ==
    [][ /\ (last'.kind \in InstancedKinds /\ ~s_capabilities.Instancing) =>
              /\ ErrorReported'
              /\ cmds' = <<>>
              /\ s_instancing' = s_instancing
              /\ s_updateFlags' = s_updateFlags
              /\ currentContext # Null =>
                    report' = ErrorReport(<<"Instancing not supported">>)
        /\ (last'.kind = "GetInstanceBuffer" /\ ~s_capabilities.Instancing) =>
              /\ report' = ErrorReport(<<"Instancing not supported">>)
              /\ cmds' = <<>>
              /\ ret' = RetPointer(Null)
              /\ s_updateFlags' = s_updateFlags
        /\ (last'.kind \in ConditionKinds
                /\ ~s_capabilities.ConditionalRendering) =>
              /\ ErrorReported'
              /\ cmds' = <<>>
              /\ currentContext # Null =>
                    report' = ErrorReport(
                        <<"Conditional rendering is not supported">>)
      ]_vars

\* With neither capability and a context current, BeginCondition was
\* rejected for the capability and nothing reached the backend.
C20_Witness ==
    /\ last.kind = "BeginCondition"
    /\ currentContext # Null
    /\ ~s_capabilities.ConditionalRendering
    /\ ~s_capabilities.Instancing
    /\ report = ErrorReport(<<"Conditional rendering is not supported">>)
    /\ cmds = <<>>

(***************************************************************************)
(* Properties of the reconciliation (checked under SpecShader).            *)
(***************************************************************************)

\* The locations the matrix slots hold are those of `program`: it is the
\* program of the last reconciliation that resolved them.
ResolvedFor(program) ==
    \A t \in MatrixTypes :
        s_matrices[t].location = GetUniformLocation(program, t)

\* The SendMatrix commands of the last call.
MatrixSends == {i \in DOMAIN cmds : cmds[i][1] = "SendMatrix"}

\* C13: a successful draw with a program other than the one the locations
\* were last resolved for resolves the twelve locations for the bound
\* program, sends once, to that program, the value of every slot the
\* program exposes, and sends no other matrix.
C13_ShaderChangeResendsMatrices ==
    [][ (/\ last'.kind \in DrawKinds
         /\ DrawIssued'
         /\ \E program \in Shaders \ {s_shader} : ResolvedFor(program)) =>
          /\ ResolvedFor(s_shader)'
          /\ \A t \in MatrixTypes :
                GetUniformLocation(s_shader, t) # -1 =>
                    Cardinality({i \in MatrixSends' :
                        cmds'[i] = <<"SendMatrix", s_shader,
                                     GetUniformLocation(s_shader, t),
                                     s_matrices'[t].matrix>>}) = 1
          /\ \A i \in MatrixSends' :
                \E t \in MatrixTypes :
                    /\ GetUniformLocation(s_shader, t) # -1
                    /\ cmds'[i][3] = GetUniformLocation(s_shader, t)
      ]_vars

\* Program 2 was drawn with after a draw had built the vertex array object
\* and no matrix was set since Initialize: its three matrices were sent.
C13_Witness ==
    /\ last.kind = "DrawPrimitives"
    /\ DrawIssued
    /\ ~Issued("glGenVertexArrays")
    /\ setCount = 0
    /\ s_shader = 2
    /\ ResolvedFor(2)
    /\ Cardinality(MatrixSends) = 3

\* The position of the draw command among `commands`.
DrawIndex(commands) ==
    CHOOSE i \in DOMAIN commands : commands[i][1] \in DrawCommands

\* C16 (checked under SpecShader): a reconciliation that succeeds, so that
\* the entry point issues its draw command, has applied the render states
\* the renderer holds exactly once, and that is the command just before the
\* draw command, whatever the update flags were.
C16_StatesAppliedLastOnce ==
    [][ (last'.kind \in DrawKinds /\ DrawIssued') =>
          /\ DrawIndex(cmds') > 1
          /\ cmds'[DrawIndex(cmds') - 1] = <<"ApplyStates", s_states>>
          /\ Cardinality({i \in DOMAIN cmds' : cmds'[i][1] = "ApplyStates"}) = 1
      ]_vars

\* A draw with no update flag set: the object is bound, the states set by
\* SetRenderStates are applied, the draw command follows.
C16_Witness ==
    /\ last.kind = "DrawPrimitives"
    /\ s_states = 1
    /\ cmds = << <<"EnsureTargetUpdated", s_target>>,
                 <<"ShaderBind", s_shader>>,
                 <<"glBindVertexArray", currentContext, s_currentVAO>>,
                 <<"ApplyStates", 1>>,
                 <<"glDrawArrays">>,
                 <<"glBindVertexArray", currentContext, 0>> >>

\* C15: a draw that reaches the reconciliation with a vertex buffer whose
\* declaration holds an enabled component of an unsupported type reports an
\* error and issues no draw command, with vertex array objects and without.
C15_UnsupportedAttributeFailsDraw ==
    [][ (/\ last'.kind \in DrawKinds
         /\ Reconciled'
         /\ s_vertexBuffer # Null
         /\ ~SupportedVertexBuffer(s_vertexBuffer)) =>
          /\ ErrorReported'
          /\ ~DrawIssued'
      ]_vars

(***************************************************************************)
(* Properties of the life cycle (checked under SpecLifecycle).             *)
(***************************************************************************)

\* Everything the renderer and the backend hold besides the counter.
tracked ==
    << s_matrices, s_textureUnits, s_dirtyTextureUnits, s_vaos, s_currentVAO,
       s_instanceBuffer, s_states, s_targetSize, s_updateFlags, s_indexBuffer,
       s_target, s_shader, s_vertexBuffer, s_capabilities, s_instancing,
       s_useSamplerObjects, s_useVertexArrayObjects, currentContext,
       glVertexArrays, queuedDeletes, glBoundTextures, glUniforms,
       glTextureSamplers, modules >>

\* The last call made a set-up call, or a teardown call.
SetupRan ==
    \E i \in DOMAIN cmds :
        cmds[i][1] \in {"Initialize", "Fill", "DebugShader", "Register"}
TeardownRan ==
    \E i \in DOMAIN cmds : cmds[i][1] \in {"Uninitialize", "Unregister"}

\* C17: set-up calls are made only by an Initialize that finds the counter
\* at 0, and it leaves the counter at 1 when it succeeds; teardown calls are
\* made only by an Uninitialize that finds the counter at 1 (the one a
\* failing Initialize runs as it returns included), and it leaves it at 0.
\* Any other Initialize adds one to the counter, returns true and does
\* nothing else; any other Uninitialize takes one from a counter above 1
\* and does nothing else.  IsInitialized answers whether the counter is
\* above zero, and the sub-systems are set up exactly then.
C17_ReferenceCounted ==
    /\ [](/\ s_moduleReferenceCounter > 0 => modules = Modules
          /\ s_moduleReferenceCounter = 0 => modules = {})
    /\ [][ /\ SetupRan' => (last'.kind = "Initialize" /\ s_moduleReferenceCounter = 0)
           /\ TeardownRan' =>
                 \/ last'.kind = "Uninitialize" /\ s_moduleReferenceCounter = 1
                 \/ /\ last'.kind = "Initialize"
                    /\ s_moduleReferenceCounter = 0
                    /\ ~ret'.ok
           /\ (last'.kind = "Initialize" /\ s_moduleReferenceCounter = 0) =>
                 /\ SetupRan'
                 /\ ret'.ok => (s_moduleReferenceCounter' = 1 /\ ~TeardownRan')
                 /\ ~ret'.ok => s_moduleReferenceCounter' = 0
           /\ (last'.kind = "Initialize" /\ s_moduleReferenceCounter > 0) =>
                 /\ s_moduleReferenceCounter' = s_moduleReferenceCounter + 1
                 /\ ret' = RetBool(TRUE)
                 /\ cmds' = <<>>
                 /\ report' = <<>>
                 /\ tracked' = tracked
           /\ (last'.kind = "Uninitialize" /\ s_moduleReferenceCounter = 1) =>
                 /\ s_moduleReferenceCounter' = 0
                 /\ TeardownRan'
           /\ (last'.kind = "Uninitialize" /\ s_moduleReferenceCounter # 1) =>
                 /\ s_moduleReferenceCounter' =
                        IF s_moduleReferenceCounter > 1
                        THEN s_moduleReferenceCounter - 1 ELSE 0
                 /\ cmds' = <<>>
                 /\ tracked' = tracked
           /\ last'.kind = "IsInitialized" =>
                 /\ ret' = RetBool(s_moduleReferenceCounter > 0)
                 /\ s_moduleReferenceCounter' = s_moduleReferenceCounter
         ]_vars

\* A second Initialize: the counter is 2 and the vertex buffer set after
\* the first one is still bound, which a set-up would have reset.
C17_Witness ==
    /\ last.kind = "Initialize"
    /\ s_moduleReferenceCounter = 2
    /\ ret = RetBool(TRUE)
    /\ cmds = <<>>
    /\ s_vertexBuffer # Null
    /\ Entries(World) # {}

\* The teardown call that undoes the set-up call `command`.
Undoes(undo, command) ==
    \/ command[1] = "Initialize" /\ undo = <<"Uninitialize", command[2]>>
    \/ command[1] = "Fill" /\ undo = <<"Reset", "s_fullscreenQuadBuffer">>
    \/ command[1] = "Register" /\ undo = <<"Unregister", command[2]>>

\* The set-up calls of the last call that completed.
CompletedSetup ==
    {i \in DOMAIN cmds :
        \/ cmds[i][1] \in {"Initialize", "Fill"} /\ cmds[i][3]
        \/ cmds[i][1] = "Register"}

\* C18: an Initialize that fails in its set-up reports the error and returns
\* false after every set-up call that had completed was undone by a later
\* call of the same Initialize; it leaves the counter at 0, no sub-system
\* set up and no instance buffer, and an Initialize that finds the counter
\* at 0 starts the set-up from its first step.
C18_FailedSetupRolledBack ==
    [][ /\ (last'.kind = "Initialize" /\ s_moduleReferenceCounter = 0 /\ ~ret'.ok) =>
              /\ ErrorReported'
              /\ s_moduleReferenceCounter' = 0
              /\ modules' = {}
              /\ s_instanceBuffer'.vertexCount = 0
              /\ \A i \in CompletedSetup' :
                    \E j \in DOMAIN cmds' : j > i /\ Undoes(cmds'[j], cmds'[i])
        /\ (last'.kind = "Initialize" /\ s_moduleReferenceCounter = 0) =>
              /\ cmds'[1][1] = "Initialize"
              /\ cmds'[1][2] = "Utility"
      ]_vars

\* The set-up failed at the texture module: the sub-systems set up before
\* it were torn down and the counter is 0.
C18_Witness ==
    /\ last.kind = "Initialize"
    /\ ret = RetBool(FALSE)
    /\ report = ErrorReport(<<"Failed to initialize textures">>)
    /\ s_moduleReferenceCounter = 0
    /\ modules = {}
    /\ \E i, j \in DOMAIN cmds :
          /\ i < j
          /\ cmds[i] = <<"Initialize", "Shader", TRUE>>
          /\ cmds[j] = <<"Uninitialize", "Shader">>

\* The positions of the command `command` among `commands`.
Positions(commands, command) ==
    {i \in DOMAIN commands : commands[i] = command}

\* The sub-systems are torn down in the reverse of SetupOrder: each one
\* after all those set up after it.
ReverseOfSetup(commands) ==
    \A a, b \in 1..Len(SetupOrder) :
        a < b =>
            \A i \in Positions(commands,
                                <<IF a = Len(SetupOrder) THEN "Unregister"
                                  ELSE "Uninitialize", SetupOrder[a]>>) :
            \A j \in Positions(commands,
                                <<IF b = Len(SetupOrder) THEN "Unregister"
                                  ELSE "Uninitialize", SetupOrder[b]>>) :
                j < i

\* C19: the teardown hands every cached handle to the backend with the
\* context of its map: a handle of the current context is deleted by a
\* command issued before OpenGL is torn down, a handle of another context
\* is queued for that context and not deleted; no object of another context
\* goes away, the context table is empty afterwards, and the sub-systems
\* are torn down in the reverse of their set-up order.
C19_TeardownDrainsCache ==
    [][ (last'.kind = "Uninitialize" /\ s_moduleReferenceCounter = 1) =>
          /\ s_vaos' = <<>>
          /\ \A e \in Entries(World) :
                LET vao == s_vaos[e[1]][e[2]]
                IN  vao # 0 =>
                      IF e[1] = currentContext
                      THEN /\ vao \notin glVertexArrays'[e[1]]
                           /\ \E i \in Positions(cmds', <<"glDeleteVertexArrays",
                                                          e[1], vao>>) :
                              \A j \in Positions(cmds', <<"Uninitialize", "OpenGL">>) :
                                  i < j
                      ELSE /\ vao \in queuedDeletes'[e[1]]
                           /\ vao \in glVertexArrays'[e[1]]
          /\ \A c \in Contexts \ {currentContext} :
                glVertexArrays'[c] = glVertexArrays[c]
          /\ Positions(cmds', <<"Uninitialize", "OpenGL">>) # {}
          /\ ReverseOfSetup(cmds')
      ]_vars

\* The teardown found an entry in the map of the current context and one
\* in the map of another context: the first object is deleted, the deletion
\* of the second is queued.
C19_Witness ==
    /\ last.kind = "Uninitialize"
    /\ s_moduleReferenceCounter = 0
    /\ s_vaos = <<>>
    /\ Issued("glDeleteVertexArrays")
    /\ \E e1, e2 \in last.evicted :
          /\ e1[1] = currentContext
          /\ e2[1] # currentContext
          /\ queuedDeletes[e2[1]] # {}
          /\ glVertexArrays[e1[1]] = {}

(***************************************************************************)
(* Properties of the fallback mode (checked under SpecEntry).              *)
(***************************************************************************)

\* `commands` declare the component `name` of `declaration`: its pointer
\* when it is enabled, glDisableVertexAttribArray when it is not.
Declares(commands, declaration, name) ==
    \E i \in DOMAIN commands :
        commands[i] =
            IF GetComponent(declaration, name).enabled
            THEN <<"glVertexAttribPointer", name,
                   GetComponent(declaration, name).type>>
            ELSE <<"glDisableVertexAttribArray", name>>

\* `commands` declare every component of the layout of `vertexBuffer`.
DeclaresAll(commands, vertexBuffer) ==
    \A j \in 1..Len(VertexDataComponents) :
        Declares(commands, VertexDeclarationOf(vertexBuffer),
                 VertexDataComponents[j])

\* Without vertex array objects the cache holds no context and no entry and
\* Update_VAO is set in every state.
FallbackNeverCaches ==
    ~s_useVertexArrayObjects =>
        /\ s_vaos = <<>>
        /\ "Update_VAO" \in s_updateFlags

\* C21 as stated: without vertex array objects no context entry and no
\* cache entry is ever created, Update_VAO stays set, and every draw that
\* issues its draw command has declared, in the same call, every component
\* of the layout of the tracked vertex buffer.
C21_FallbackRedeclaresAll ==
    /\ []FallbackNeverCaches
    /\ [][ (/\ last'.kind \in DrawKinds
            /\ ~s_useVertexArrayObjects
            /\ DrawIssued') =>
              /\ Issued("glBindBuffer")'
              /\ DeclaresAll(cmds', s_vertexBuffer)
         ]_vars

\* What holds of C21: the same, for the vertex buffers whose layout holds
\* supported component types only.
C21_FallbackRedeclaresSupported ==
    /\ []FallbackNeverCaches
    /\ [][ (/\ last'.kind \in DrawKinds
            /\ ~s_useVertexArrayObjects
            /\ DrawIssued'
            /\ SupportedVertexBuffer(s_vertexBuffer)) =>
              /\ Issued("glBindBuffer")'
              /\ DeclaresAll(cmds', s_vertexBuffer)
         ]_vars

(***************************************************************************)
(* The vertex array object bound while a draw entry point runs (checked    *)
(* under SpecEntry).                                                       *)
(***************************************************************************)

RECURSIVE BoundAt(_, _)
\* The vertex array object bound after the first n of `commands`, none (0)
\* being bound before them: glBindVertexArray binds its argument, the
\* deletion of the bound object leaves none bound.
BoundAt(commands, n) ==
    IF n = 0 THEN 0
    ELSE IF commands[n][1] = "glBindVertexArray" THEN commands[n][3]
    ELSE IF commands[n][1] = "glDeleteVertexArrays"
    THEN IF commands[n][3] = BoundAt(commands, n - 1)
         THEN 0 ELSE BoundAt(commands, n - 1)
    ELSE BoundAt(commands, n - 1)

TextureSetters == {"SetTexture", "SetTextureSampler"}

\* The step appends `unit` to the queue of dirty units, sets Update_Textures
\* and leaves the other flags, the other units and the backend alone.
Enqueues(unit) ==
    /\ s_dirtyTextureUnits' = Append(s_dirtyTextureUnits, unit)
    /\ s_updateFlags' = s_updateFlags \cup {"Update_Textures"}
    /\ \A u \in TextureUnits \ {unit} : s_textureUnits'[u] = s_textureUnits[u]
    /\ cmds' = <<>>
    /\ report' = <<>>

\* The step is SetTextureSampler(unit, sampler): the unit holds the sampler,
\* with the mip-mapping need of its texture when it has one, and
\* samplerUpdated is false.
SamplerStored(unit, sampler) ==
    /\ s_textureUnits'[unit].texture = s_textureUnits[unit].texture
    /\ s_textureUnits'[unit].sampler.config = sampler.config
    /\ s_textureUnits'[unit].sampler.mipmaps =
          IF s_textureUnits[unit].texture # Null
          THEN HasMipmaps(s_textureUnits[unit].texture)
          ELSE sampler.mipmaps
    /\ ~s_textureUnits'[unit].samplerUpdated

\* The step is SetTexture(unit, texture): the unit holds the texture and
\* the configuration it held; samplerUpdated is cleared when the texture
\* changes the mip-mapping need of the sampler and kept otherwise.
TextureStored(unit, texture) ==
    /\ s_textureUnits'[unit].texture = texture
    /\ s_textureUnits'[unit].sampler.config = s_textureUnits[unit].sampler.config
    /\ IF texture # Null
             /\ HasMipmaps(texture) # s_textureUnits[unit].sampler.mipmaps
       THEN /\ ~s_textureUnits'[unit].samplerUpdated
            /\ s_textureUnits'[unit].sampler.mipmaps = HasMipmaps(texture)
       ELSE /\ s_textureUnits'[unit].samplerUpdated
                  = s_textureUnits[unit].samplerUpdated
            /\ s_textureUnits'[unit].sampler.mipmaps
                  = s_textureUnits[unit].sampler.mipmaps

\* C23 as stated: every SetTexture and every SetTextureSampler stores its
\* argument in the unit, appends the unit to the queue and sets
\* Update_Textures.
C23_SettersEnqueue ==
    [][ /\ last'.kind = "SetTexture" =>
              /\ TextureStored(last'.arg[1], last'.arg[2])
              /\ Enqueues(last'.arg[1])
        /\ last'.kind = "SetTextureSampler" =>
              /\ SamplerStored(last'.arg[1], last'.arg[2])
              /\ Enqueues(last'.arg[1])
      ]_vars

\* C23 (amended): SetTextureSampler always does so; SetTexture does so when
\* its texture differs from the one the unit tracks, and changes nothing
\* when it is the same.
C23_SettersEnqueueOnChange ==
    [][ /\ last'.kind = "SetTexture" =>
              IF s_textureUnits[last'.arg[1]].texture = last'.arg[2]
              THEN /\ s_textureUnits' = s_textureUnits
                   /\ s_dirtyTextureUnits' = s_dirtyTextureUnits
                   /\ s_updateFlags' = s_updateFlags
                   /\ cmds' = <<>>
              ELSE /\ TextureStored(last'.arg[1], last'.arg[2])
                   /\ Enqueues(last'.arg[1])
        /\ last'.kind = "SetTextureSampler" =>
              /\ SamplerStored(last'.arg[1], last'.arg[2])
              /\ Enqueues(last'.arg[1])
      ]_vars

\* Unit 0 is twice in the queue: its sampler was set, then the texture with
\* mipmaps, which changed the need of the sampler.
C23_Witness ==
    /\ last.kind = "SetTexture"
    /\ last.arg = <<0, 2>>
    /\ s_dirtyTextureUnits = <<0, 0>>
    /\ s_textureUnits[0].texture = 2
    /\ s_textureUnits[0].sampler = [config |-> 1, mipmaps |-> TRUE]
    /\ ~s_textureUnits[0].samplerUpdated
    /\ "Update_Textures" \in s_updateFlags

\* How many times `commands` apply `sampler` to `unit`, which tracks
\* `texture`: sampler.Bind(unit) with sampler objects; without them,
\* OpenGL::BindTextureUnit(unit) followed by sampler.Apply(texture).
Applications(commands, unit, texture, sampler, samplerObjects) ==
    Cardinality(
        {i \in DOMAIN commands :
            IF samplerObjects
            THEN commands[i] = <<"SamplerBind", unit, sampler>>
            ELSE /\ commands[i] = <<"BindTextureUnit", unit>>
                 /\ i < Len(commands)
                 /\ commands[i + 1] = <<"SamplerApply", texture, sampler>>})

\* The commands of either mode among `commands`.
SamplerCommands(commands) ==
    {i \in DOMAIN commands :
        commands[i][1] \in {"SamplerBind", "BindTextureUnit", "SamplerApply"}}

\* The units in the queue.
Queued == {s_dirtyTextureUnits[i] : i \in DOMAIN s_dirtyTextureUnits}

\* The units the next reconciliation applies the sampler to.
ToApply ==
    {u \in Queued :
        s_textureUnits[u].texture # Null /\ ~s_textureUnits[u].samplerUpdated}

\* C24: a draw that passes the preconditions of the reconciliation with
\* Update_Textures set applies, in the mode of the backend and once, the
\* sampler of each queued unit that has a texture and samplerUpdated
\* false, and marks it; it applies nothing else and changes no other unit;
\* the queue is empty and Update_Textures clear afterwards.  With
\* Update_Textures clear no sampler is applied.
C24_QueueDrained ==
    [][ (last'.kind \in DrawKinds /\ Reconciled') =>
          IF "Update_Textures" \in s_updateFlags
          THEN /\ \A u \in TextureUnits :
                     /\ Applications(cmds', u, s_textureUnits[u].texture,
                                     s_textureUnits[u].sampler,
                                     s_useSamplerObjects)
                           = IF u \in ToApply THEN 1 ELSE 0
                     /\ s_textureUnits'[u] =
                           IF u \in ToApply
                           THEN [s_textureUnits[u] EXCEPT !.samplerUpdated = TRUE]
                           ELSE s_textureUnits[u]
               /\ Cardinality(SamplerCommands(cmds'))
                     = Cardinality(ToApply) * (IF s_useSamplerObjects THEN 1 ELSE 2)
               /\ s_dirtyTextureUnits' = <<>>
               /\ "Update_Textures" \notin s_updateFlags'
          ELSE /\ SamplerCommands(cmds') = {}
               /\ s_textureUnits' = s_textureUnits
               /\ s_dirtyTextureUnits' = s_dirtyTextureUnits
      ]_vars

\* Without sampler objects a draw applied the sampler of unit 0 to its
\* texture, once, and nothing to unit 1, which tracks no texture.
C24_Witness ==
    /\ last.kind = "DrawPrimitives"
    /\ DrawIssued
    /\ ~s_useSamplerObjects
    /\ Applications(cmds, 0, s_textureUnits[0].texture,
                    s_textureUnits[0].sampler, FALSE) = 1
    /\ Cardinality(SamplerCommands(cmds)) = 2
    /\ s_textureUnits[0].samplerUpdated
    /\ s_textureUnits[1].texture = Null
    /\ ~s_textureUnits[1].samplerUpdated
    /\ s_dirtyTextureUnits = <<>>
    /\ "Update_Textures" \notin s_updateFlags

\* How many times `commands` bind `texture` on `unit`.
TextureBinds(commands, unit, texture) ==
    Cardinality({i \in DOMAIN commands :
                    commands[i] = <<"BindTexture", unit, texture>>})

\* C25: a draw that issues its draw command has bound, once and before it,
\* the texture of every unit that tracks one, whether the unit was queued
\* or not and whatever was bound on it, so that the backend holds that
\* texture on that unit at the draw command; it binds no other texture and
\* leaves the binding of the units without texture alone.
C25_TrackedTexturesRebound ==
    [][ (last'.kind \in DrawKinds /\ DrawIssued') =>
          /\ \A u \in TextureUnits :
                IF s_textureUnits[u].texture # Null
                THEN /\ TextureBinds(cmds', u, s_textureUnits[u].texture) = 1
                     /\ \E i \in 1..DrawIndex(cmds') :
                           cmds'[i] = <<"BindTexture", u, s_textureUnits[u].texture>>
                     /\ glBoundTextures'[u] = s_textureUnits[u].texture
                     /\ s_textureUnits'[u].texture = s_textureUnits[u].texture
                ELSE glBoundTextures'[u] = glBoundTextures[u]
          /\ Cardinality({i \in DOMAIN cmds' : cmds'[i][1] = "BindTexture"})
                = Cardinality({u \in TextureUnits : s_textureUnits[u].texture # Null})
      ]_vars

\* A draw found the queue empty and Update_Textures clear, and bound the
\* textures of both units again.
C25_Witness ==
    /\ last.kind = "DrawPrimitives"
    /\ DrawIssued
    /\ cmds = << <<"EnsureTargetUpdated", s_target>>,
                 <<"ShaderBind", s_shader>>,
                 <<"glBindVertexArray", currentContext, s_currentVAO>>,
                 <<"BindTexture", 0, 1>>,
                 <<"EnsureMipmapsUpdate", 1>>,
                 <<"BindTexture", 1, 2>>,
                 <<"EnsureMipmapsUpdate", 2>>,
                 <<"ApplyStates", s_states>>,
                 <<"glDrawArrays">>,
                 <<"glBindVertexArray", currentContext, 0>> >>
    /\ glBoundTextures[0] = 1
    /\ glBoundTextures[1] = 2

(***************************************************************************)
(* The matrix step of the reconciliation (checked under SpecShader).       *)
(***************************************************************************)

\* The location slot `t` holds when line 1586 is reached: the shader step
\* has resolved it again if Update_Shader was set.
LocationAtMatrixStep(t) ==
    IF "Update_Shader" \in s_updateFlags
    THEN GetUniformLocation(s_shader, t)
    ELSE s_matrices[t].location

\* Whether line 1586 finds Update_Matrices set: the shader step sets it.
MatricesFlagAtMatrixStep ==
    s_updateFlags \cap {"Update_Matrices", "Update_Shader"} # {}

\* The slot Renderer::UpdateMatrix brings up to date first when it
\* recomputes `t` (lines 2011-2012 and the inverse cases).
UpdatedFirst(t) ==
    IF t = "WorldViewProj" THEN {"WorldView"}
    ELSE IF t \in InverseMatrixTypes THEN {InverseSource(t)}
    ELSE {}

\* Slot `t` is stale and has a location at the matrix step.
StaleExposed(t) == ~s_matrices[t].updated /\ LocationAtMatrixStep(t) # -1

\* The matrix step recomputes the stale slot `t`: it has a location, or a
\* stale slot with a location updates it first, directly or through one
\* stale slot in between (InvWorldViewProj, WorldViewProj, WorldView).
StaleNeeded(t) ==
    \/ StaleExposed(t)
    \/ \E t2 \in MatrixTypes :
          /\ t \in UpdatedFirst(t2)
          /\ ~s_matrices[t2].updated
          /\ \/ LocationAtMatrixStep(t2) # -1
             \/ \E t3 \in MatrixTypes :
                   t2 \in UpdatedFirst(t3) /\ StaleExposed(t3)

\* Every matrix the last call sent went to the location of a slot that has
\* one.
SendsOnlyExposed ==
    \A i \in MatrixSends :
        /\ cmds[i][3] # -1
        /\ \E t \in MatrixTypes : s_matrices[t].location = cmds[i][3]

\* C26 as stated: in a draw that reaches the matrix step, a stale slot
\* without location keeps updated = FALSE and its value, no matrix goes to
\* an absent location, and nothing is sent when Update_Matrices is clear
\* at that step.
C26_AbsentSlotStaysStale ==
    [][ (last'.kind \in DrawKinds /\ Reconciled') =>
          /\ \A t \in MatrixTypes :
                (~s_matrices[t].updated /\ LocationAtMatrixStep(t) = -1) =>
                    /\ ~s_matrices'[t].updated
                    /\ s_matrices'[t].matrix = s_matrices[t].matrix
          /\ SendsOnlyExposed'
          /\ ~MatricesFlagAtMatrixStep => MatrixSends' = {}
      ]_vars

\* C26, amended: a stale slot without location keeps updated = FALSE and
\* its value unless a stale slot with a location is computed from it, in
\* which case it is brought up to date; either way nothing is sent for it,
\* and nothing is sent when Update_Matrices is clear at that step.
C26_AbsentSlotStaysStaleUnlessNeeded ==
    [][ (last'.kind \in DrawKinds /\ Reconciled') =>
          /\ \A t \in MatrixTypes :
                (~s_matrices[t].updated /\ LocationAtMatrixStep(t) = -1) =>
                    IF MatricesFlagAtMatrixStep /\ StaleNeeded(t)
                    THEN s_matrices'[t].updated
                    ELSE /\ ~s_matrices'[t].updated
                         /\ s_matrices'[t].matrix = s_matrices[t].matrix
          /\ SendsOnlyExposed'
          /\ Cardinality(MatrixSends') <=
                Cardinality({t \in MatrixTypes : s_matrices'[t].location # -1})
          /\ ~MatricesFlagAtMatrixStep => MatrixSends' = {}
      ]_vars

\* Program 2 was drawn with while WorldView and WorldViewProj, which it
\* does not read, were stale: they still are, and three matrices were sent.
C26_Witness ==
    /\ last.kind = "DrawPrimitives"
    /\ DrawIssued
    /\ s_shader = 2
    /\ ResolvedFor(2)
    /\ Cardinality(MatrixSends) = 3
    /\ ~s_matrices["WorldView"].updated
    /\ ~s_matrices["WorldViewProj"].updated
    /\ setCount > 0

(***************************************************************************)
(* The uniforms of the target size (checked under SpecShader).             *)
(***************************************************************************)
SizeUniforms == {"TargetSize", "InvTargetSize"}

\* What is sent for a size uniform: the size, or its inverse.
SizeValue(uniform, target) ==
    <<IF uniform = "InvTargetSize" THEN "1/" ELSE "", TargetSizeOf(target)>>

\* How many times the last call sent `uniform` of the bound target's size
\* to the bound program.
SizeSends(uniform) ==
    Cardinality({i \in DOMAIN cmds :
                    cmds[i] = <<"SendVector", s_shader,
                                GetUniformLocation(s_shader, uniform),
                                SizeValue(uniform, s_target)>>})

\* C27: a draw that goes through and finds Update_Shader set sends each of
\* the two size uniforms the bound program exposes, once, with the size of
\* the bound target, whatever that size is and whatever was sent before.
C27_ShaderChangeResendsTargetSize ==
    [][ (/\ last'.kind \in DrawKinds
         /\ DrawIssued'
         /\ "Update_Shader" \in s_updateFlags) =>
          \A uniform \in SizeUniforms :
              GetUniformLocation(s_shader, uniform) # -1 => SizeSends(uniform)' = 1
      ]_vars

\* The same for targets that have an area.
C27_ShaderChangeResendsNonZeroSize ==
    [][ (/\ last'.kind \in DrawKinds
         /\ DrawIssued'
         /\ "Update_Shader" \in s_updateFlags
         /\ TargetSizeOf(s_target) # 0) =>
          \A uniform \in SizeUniforms :
              GetUniformLocation(s_shader, uniform) # -1 => SizeSends(uniform)' = 1
      ]_vars

(***************************************************************************)
(* A build that meets an unsupported type (checked under SpecEntry).       *)
(***************************************************************************)

\* The commands that enable or point an attribute.
AttributeCommands ==
    {"glEnableVertexAttribArray", "glVertexAttribPointer", "glVertexAttribDivisor"}

\* The components of the vertex buffer's layout that come before its first
\* enabled component of an unsupported type.
BeforeUnsupported(vertexBuffer) ==
    {VertexDataComponents[j] : j \in
        {k \in 1..Len(VertexDataComponents) :
            \A l \in 1..k :
                LET c == GetComponent(VertexDeclarationOf(vertexBuffer),
                                      VertexDataComponents[l])
                IN  c.enabled => IsComponentTypeSupported(World, c.type)}}

\* The last call declared attributes from a vertex buffer whose layout has
\* an unsupported type.
BuildMetUnsupported ==
    /\ Issued("glBindBuffer")
    /\ s_vertexBuffer # Null
    /\ ~SupportedVertexBuffer(s_vertexBuffer)

\* No attribute of the base layout was enabled or pointed past the
\* unsupported one.
BaseLayoutAborted ==
    \A i \in DOMAIN cmds :
        (cmds[i][1] \in AttributeCommands /\ cmds[i][2] \in
            {VertexDataComponents[j] : j \in 1..Len(VertexDataComponents)}) =>
                cmds[i][2] \in BeforeUnsupported(s_vertexBuffer)

\* No attribute of the instancing layout was enabled or pointed.
InstancingLayoutSkipped ==
    \A i \in DOMAIN cmds :
        cmds[i][1] \in AttributeCommands =>
            cmds[i][2] \notin
                {InstanceDataComponents[j] : j \in 1..Len(InstanceDataComponents)}

\* No index buffer was bound.
IndexBufferNotBound ==
    \A i \in DOMAIN cmds :
        (cmds[i][1] = "glBindBuffer" /\ cmds[i][2] = "Index") =>
            cmds[i][3] = Null

\* C28: a draw whose build meets an unsupported attribute type enables and
\* points no attribute after it, neither of the base layout nor of the
\* instancing layout, and binds no index buffer.
C28_UnsupportedAbortsBuild ==
    [][ (last'.kind \in DrawKinds /\ BuildMetUnsupported') =>
          /\ BaseLayoutAborted'
          /\ InstancingLayoutSkipped'
          /\ IndexBufferNotBound'
      ]_vars

\* The part about the base layout.
C28_UnsupportedAbortsBaseLayout ==
    [][ (last'.kind \in DrawKinds /\ BuildMetUnsupported') => BaseLayoutAborted'
      ]_vars

\* The part about the instancing layout.
C28_UnsupportedSkipsInstancing ==
    [][ (last'.kind \in DrawKinds /\ BuildMetUnsupported') =>
          InstancingLayoutSkipped'
      ]_vars

\* The part about the index buffer.
C28_UnsupportedSkipsIndexBuffer ==
    [][ (last'.kind \in DrawKinds /\ BuildMetUnsupported') =>
          IndexBufferNotBound'
      ]_vars

(***************************************************************************)
(* Released textures (checked under SpecTexture).                          *)
(***************************************************************************)

\* The textures the units track.
TrackedTextures ==
    {s_textureUnits[u].texture : u \in TextureUnits} \ {Null}

C30_DrawBindsHandleOfPresentEntry ==
    [][ (last'.kind \in DrawKinds /\ s_useVertexArrayObjects /\ DrawIssued') =>
          BoundAt(cmds', DrawIndex(cmds') - 1) \in HandlesOf(currentContext)'
      ]_vars

\* The same for draws made while no other context holds an entry, so that
\* the handle bound can only come from the map of the current context.
C30_DrawBindsNoEvictedHandle ==
    [][ (/\ last'.kind \in DrawKinds
         /\ s_useVertexArrayObjects
         /\ DrawIssued'
         /\ \A c \in Contexts \ {currentContext} : KeysOf(c) = {}) =>
          BoundAt(cmds', DrawIndex(cmds') - 1) \in HandlesOf(currentContext)'
      ]_vars

\* The same for draws that resolve the key (Update_VAO is set).
C30_ResolvingDrawBindsHandleOfPresentEntry ==
    [][ (/\ last'.kind \in DrawKinds
         /\ s_useVertexArrayObjects
         /\ DrawIssued'
         /\ ResolvingStep) =>
          BoundAt(cmds', DrawIndex(cmds') - 1) \in HandlesOf(currentContext)'
      ]_vars

(***************************************************************************)
(* A key whose build failed (checked under SpecCache).                     *)
(***************************************************************************)

\* The key of the tracked state, with the instancing of the step, has an
\* entry with the null handle in the map of the current context: its build
\* failed and no release has evicted it.
FailedKeyActive ==
    /\ s_useVertexArrayObjects
    /\ currentContext # Null
    /\ s_vertexBuffer # Null
    /\ StepKey \in KeysOf(currentContext)
    /\ s_vaos[currentContext][StepKey] = 0

\* C31: a draw made while the active key holds the null handle in the
\* current context issues no draw command and creates no object, whether
\* it resolves the key again or not, and leaves the cache as it is; when
\* it passes the checks of context, shader and target it reports the
\* creation failure.
C31_FailedKeyKeepsFailing ==
    [][ (last'.kind \in DrawKinds /\ FailedKeyActive) =>
          /\ ~DrawIssued'
          /\ ~Issued("glGenVertexArrays")'
          /\ s_vaos' = s_vaos
          /\ glVertexArrays' = glVertexArrays
          /\ Reconciled' =>
                report' = ErrorReport(<<"Failed to update states",
                                       "Failed to create VAO">>)
      ]_vars

\* A draw failed on the null handle its key holds in the current context:
\* it created and deleted nothing.
C31_Witness ==
    /\ last.kind = "DrawPrimitives"
    /\ report = ErrorReport(<<"Failed to update states", "Failed to create VAO">>)
    /\ Reconciled
    /\ ~Issued("glGenVertexArrays")
    /\ ~Issued("glDeleteVertexArrays")
    /\ "Update_VAO" \notin s_updateFlags
    /\ s_currentVAO = 0
    /\ CurrentKey(World) \in KeysOf(currentContext)
    /\ s_vaos[currentContext][CurrentKey(World)] = 0

(***************************************************************************)
(* The matrices the programs hold (checked under SpecUniform).             *)
(***************************************************************************)

\* C32: when a draw command was issued, the bound program holds, at the
\* location of every matrix uniform it exposes, the value GetMatrix
\* returns for that slot.
C32_SentMatricesCurrent ==
    (last.kind \in DrawKinds /\ DrawIssued) =>
        \A t \in MatrixTypes :
            GetUniformLocation(s_shader, t) # -1 =>
                glUniforms[s_shader][t] = GetMatrixOp(World, t).ret.matrix

\* The first draw that built its vertex array object sent no matrix: a
\* draw that failed for want of a vertex buffer had sent them, after
\* matrices were set, and the program holds them.
C32_Witness ==
    /\ last.kind = "DrawPrimitives"
    /\ DrawIssued
    /\ Issued("glGenVertexArrays")
    /\ MatrixSends = {}
    /\ setCount = MaxSetMatrix
    /\ s_shader = 2
    /\ glUniforms[2]["World"] = MatS
    /\ glUniforms[2]["ViewProj"] = MatS
    /\ glUniforms[1]["WorldViewProj"] # <<>>

(***************************************************************************)
(* The sampler written onto a texture without sampler objects (checked     *)
(* under SpecSampler).                                                     *)
(***************************************************************************)

\* C33: without sampler objects, after every draw whose reconciliation
\* succeeded (the draw command was issued), the texture each unit tracks
\* holds the sampler parameters of that unit's current sampler.
C33_TrackedTextureHoldsUnitSampler ==
    (last.kind \in DrawKinds /\ DrawIssued /\ ~s_useSamplerObjects) =>
        \A u \in TextureUnits :
            s_textureUnits[u].texture # Null =>
                glTextureSamplers[s_textureUnits[u].texture]
                    = s_textureUnits[u].sampler

\* The same for the texture that only unit 0 ever tracks, which no other
\* unit's sampler can overwrite.
C33_ReplacingTextureHoldsUnitSampler ==
    (/\ last.kind \in DrawKinds
     /\ DrawIssued
     /\ ~s_useSamplerObjects
     /\ s_textureUnits[0].texture = ForeignTexture) =>
        glTextureSamplers[ForeignTexture] = s_textureUnits[0].sampler

\* The weakest reading: that texture has had some sampler written onto it.
C33_ReplacingTextureHasSampler ==
    (/\ last.kind \in DrawKinds
     /\ DrawIssued
     /\ ~s_useSamplerObjects
     /\ s_textureUnits[0].texture = ForeignTexture) =>
        glTextureSamplers[ForeignTexture] # <<>>

\* What does hold: a unit whose sampler or mip-mapping need changed since
\* its last application (samplerUpdated false when the draw began) and that
\* is queued gets its sampler written onto its texture by the draw.
C33_PendingUnitSamplerWritten ==
    [][ (/\ last'.kind \in DrawKinds
         /\ DrawIssued'
         /\ ~s_useSamplerObjects) =>
          \A u \in TextureUnits :
              (/\ s_textureUnits[u].texture # Null
               /\ ~s_textureUnits[u].samplerUpdated
               /\ \E i \in DOMAIN s_dirtyTextureUnits :
                     s_dirtyTextureUnits[i] = u) =>
                  \E i \in DOMAIN cmds' :
                      cmds'[i] = <<"SamplerApply", s_textureUnits[u].texture,
                                   s_textureUnits[u].sampler>>
      ]_vars

(***************************************************************************)
(* The units whose sampler is pending (checked under SpecSampler).         *)
(***************************************************************************)
PendingUnits ==
    {u \in DOMAIN s_textureUnits :
        s_textureUnits[u].texture # Null /\ ~s_textureUnits[u].samplerUpdated}

\* C34: in every state, every unit that tracks a texture and has
\* samplerUpdated false is in the queue of dirty units and Update_Textures
\* is set; so after every draw whose reconciliation passed its
\* preconditions every unit that tracks a texture has samplerUpdated true.
C34_PendingUnitsQueued ==
    /\ \A u \in PendingUnits :
          /\ \E i \in DOMAIN s_dirtyTextureUnits : s_dirtyTextureUnits[i] = u
          /\ "Update_Textures" \in s_updateFlags
    /\ (last.kind \in DrawKinds /\ Reconciled) => PendingUnits = {}

\* A draw failed its preconditions (no shader) while unit 0 was pending:
\* the unit is still queued, and unit 1 tracks a texture too.
C34_Witness ==
    /\ last.kind \in DrawKinds
    /\ ~Reconciled
    /\ 0 \in PendingUnits
    /\ s_textureUnits[1].texture # Null
    /\ s_dirtyTextureUnits = <<1, 0>>

(***************************************************************************)
(* The queue of dirty units across teardown and setup (checked under       *)
(* SpecLifecycle).                                                         *)
(***************************************************************************)
QueueFlagged ==
    s_dirtyTextureUnits # <<>> => "Update_Textures" \in s_updateFlags

\* C35: in every state, also after a teardown followed by a new setup, the
\* queue of dirty units is non-empty only if Update_Textures is set, and
\* every index in the queue is a valid unit index.
C35_QueueImpliesFlag ==
    /\ QueueFlagged
    /\ \A i \in DOMAIN s_dirtyTextureUnits :
          s_dirtyTextureUnits[i] \in TextureUnits

\* The same for the states in which the renderer is set up.
C35_QueueImpliesFlagWhileSetUp ==
    s_moduleReferenceCounter > 0 => QueueFlagged

\* What does hold: every call other than a setup from counter zero keeps
\* the queue flagged.
C35_QueueFlaggedOutsideSetup ==
    [][ (QueueFlagged /\ ~(last'.kind = "Initialize"
                           /\ s_moduleReferenceCounter = 0)) =>
            QueueFlagged'
      ]_vars

\* The setup from counter zero that breaks it leaves the queue as the
\* teardown left it and resets the flags.
C35_SetupKeepsQueue ==
    [][ (/\ last'.kind = "Initialize"
         /\ s_moduleReferenceCounter = 0
         /\ s_moduleReferenceCounter' = 1) =>
            /\ s_dirtyTextureUnits' = s_dirtyTextureUnits
            /\ s_updateFlags' = {"Update_Matrices", "Update_Shader", "Update_VAO"}
      ]_vars

(***************************************************************************)
(* The release of the bound shader (checked under SpecUniform).            *)
(***************************************************************************)
LocationsResolved ==
    \A t \in MatrixTypes :
        s_matrices[t].location = GetUniformLocation(s_shader, t)

\* C36: the release of the bound shader leaves no shader tracked and
\* Update_Shader set; while no shader is tracked every draw fails with the
\* no-shader error and issues no command, and only a SetShader with a valid
\* shader ends that; Update_Shader stays set until a reconciliation has
\* resolved every uniform location in the new shader, so the first draw
\* that goes through afterwards has them resolved again.
C36_ReleasedShaderBlocksDraws ==
    [][ /\ (last'.kind = "ShaderReleased" /\ last'.arg = s_shader) =>
              /\ s_shader' = Null
              /\ "Update_Shader" \in s_updateFlags'
        /\ s_shader' = Null => "Update_Shader" \in s_updateFlags'
        /\ (last'.kind \in DrawKinds /\ s_shader = Null) =>
              /\ ~DrawIssued'
              /\ cmds' = <<>>
              /\ currentContext # Null =>
                    report' = ErrorReport(<<"Failed to update states", "No shader">>)
              /\ s_shader' = Null
        /\ (s_shader = Null /\ s_shader' # Null) =>
              /\ last' = Other
              /\ \E shader \in Shaders :
                    /\ s_shader' = SetShaderOp(World, shader, TRUE).s_shader
                    /\ s_updateFlags' = SetShaderOp(World, shader, TRUE).s_updateFlags
        /\ ("Update_Shader" \in s_updateFlags /\ "Update_Shader" \notin s_updateFlags') =>
              /\ last'.kind \in DrawKinds
              /\ Reconciled'
              /\ LocationsResolved'
        /\ (last'.kind \in DrawKinds /\ DrawIssued') =>
              /\ "Update_Shader" \notin s_updateFlags'
              /\ LocationsResolved'
      ]_vars

\* Program 1 was drawn with and then released: the draw fails for want of a
\* shader while WorldViewProj still holds the location it had in program 1.
C36_Witness ==
    /\ last.kind \in DrawKinds
    /\ report = ErrorReport(<<"Failed to update states", "No shader">>)
    /\ cmds = <<>>
    /\ s_shader = Null
    /\ "Update_Shader" \in s_updateFlags
    /\ glUniforms[1]["WorldViewProj"] # <<>>
    /\ s_matrices["WorldViewProj"].location # -1

(***************************************************************************)
(* Null passed to the buffer setters (checked under SpecRelease).          *)
(***************************************************************************)

\* C37: SetVertexBuffer(null) changes nothing; SetIndexBuffer(null) clears
\* the tracked index buffer and sets Update_VAO (and changes nothing when
\* none is tracked); no call but a setup from counter zero takes the
\* tracked vertex buffer from non-null to null.
C37_VertexBufferNeverNullAgain ==
    [][ /\ \A isHardware \in BOOLEAN :
              SetVertexBufferOp(World, Null, isHardware) = World
        /\ (last'.kind = "SetVertexBuffer" /\ last'.arg = Null) =>
              /\ UNCHANGED tracked
              /\ cmds' = <<>>
              /\ report' = <<>>
        /\ \A isHardware \in BOOLEAN :
              IF s_indexBuffer # Null
              THEN SetIndexBufferOp(World, Null, isHardware) =
                      [World EXCEPT !.s_indexBuffer = Null,
                                    !.s_updateFlags = @ \cup {"Update_VAO"}]
              ELSE SetIndexBufferOp(World, Null, isHardware) = World
        /\ (s_indexBuffer # Null /\ s_indexBuffer' = Null) =>
              /\ "Update_VAO" \in s_updateFlags'
              /\ last' = Other
        /\ (s_vertexBuffer # Null /\ s_vertexBuffer' = Null) =>
              /\ last'.kind = "Initialize"
              /\ s_moduleReferenceCounter = 0
      ]_vars

\* SetVertexBuffer(null) was called after buffer 1 had been drawn with and
\* released: buffer 1 is still tracked, no index buffer is, and no flag is
\* set.
C37_Witness ==
    /\ last.kind = "SetVertexBuffer"
    /\ last.arg = Null
    /\ s_vertexBuffer = 1
    /\ s_indexBuffer = Null
    /\ s_currentVAO # 0
    /\ Entries(World) = {}
    /\ s_updateFlags = {}

(***************************************************************************)
(* A set-up whose instance buffer cannot be allocated (checked under       *)
(* SpecInstancing).                                                        *)
(***************************************************************************)
InstancingNotSupported == ErrorReport(<<"Instancing not supported">>)

\* C38: a set-up whose instance buffer allocation fails still succeeds,
\* with the instancing capability absent; while it is absent every
\* instanced draw and every GetInstanceBuffer fails with the
\* instancing-not-supported error and changes nothing, and only a new
\* set-up from counter zero brings the capability back.
C38_AllocationFailureDisablesInstancing ==
    [][ /\ (/\ last'.kind = "Initialize"
             /\ report' = ErrorReport(<<"Failed to create instancing buffer">>)) =>
              /\ s_moduleReferenceCounter = 0
              /\ s_moduleReferenceCounter' = 1
              /\ ret' = RetBool(TRUE)
              /\ modules' = Modules
              /\ ~s_capabilities'.Instancing
        /\ (/\ last'.kind \in {"DrawPrimitivesInstanced",
                                "DrawIndexedPrimitivesInstanced"}
             /\ ~s_capabilities.Instancing) =>
              /\ report' = IF currentContext = Null
                            THEN ErrorReport(<<"No active context">>)
                            ELSE InstancingNotSupported
              /\ cmds' = <<>>
              /\ UNCHANGED tracked
        /\ (last'.kind = "GetInstanceBuffer" /\ ~s_capabilities.Instancing) =>
              /\ report' = InstancingNotSupported
              /\ ret' = RetPointer(Null)
              /\ cmds' = <<>>
              /\ UNCHANGED tracked
        /\ (~s_capabilities.Instancing /\ s_capabilities'.Instancing) =>
              /\ last'.kind = "Initialize"
              /\ s_moduleReferenceCounter = 0
      ]_vars

\* After a set-up that could not allocate the instance buffer, with a
\* context, a shader, a target and the buffers set, an instanced draw of one
\* instance fails for want of the capability.
C38_Witness ==
    /\ last = Draw("DrawIndexedPrimitivesInstanced", 1)
    /\ report = InstancingNotSupported
    /\ cmds = <<>>
    /\ s_moduleReferenceCounter = 1
    /\ ~s_capabilities.Instancing
    /\ currentContext # Null
    /\ s_shader # Null
    /\ s_target # Null
    /\ s_vertexBuffer # Null
    /\ s_indexBuffer # Null

(***************************************************************************)
(* Clear and the render target (checked under SpecInstancing).             *)
(***************************************************************************)

\* C39: a Clear with non-zero flags made while no target is tracked
\* completes without fault and issues no command on the missing target and
\* no glClear.
C39_ClearNeverUsesAbsentTarget ==
    [][ (/\ last'.kind = "Clear"
         /\ last'.arg # 0
         /\ currentContext # Null
         /\ s_target = Null) =>
            /\ ~Issued("NullDereference")'
            /\ ~Issued("EnsureTargetUpdated")'
            /\ ~Issued("glClear")'
      ]_vars

\* The weakest reading: such a Clear at least never faults.
C39_ClearWithoutTargetNeverFaults ==
    [][ (last'.kind = "Clear" /\ s_target = Null) =>
            ~Issued("NullDereference")'
      ]_vars

\* Whichever way the call through the null pointer goes, such a Clear
\* faults or issues glClear.
C39_ClearWithoutTargetFaultsOrClears ==
    [][ (/\ last'.kind = "Clear"
         /\ last'.arg # 0
         /\ currentContext # Null
         /\ s_target = Null) =>
            Issued("NullDereference")' \/ Issued("glClear")'
      ]_vars

\* What does hold: with a target, Clear with flags updates the target,
\* applies the render states and clears; without flags or without context
\* it issues nothing; and it changes no tracked variable.
C39_ClearWithTarget ==
    [][ last'.kind = "Clear" =>
          /\ UNCHANGED tracked
          /\ (currentContext # Null /\ last'.arg # 0 /\ s_target # Null) =>
                /\ cmds' = << <<"EnsureTargetUpdated", s_target>>,
                              <<"ApplyStates", s_states>>,
                              <<"glClear", last'.arg>> >>
                /\ report' = <<>>
          /\ (currentContext # Null /\ last'.arg = 0) =>
                cmds' = <<>> /\ report' = <<>>
          /\ currentContext = Null =>
                cmds' = <<>> /\ report' = ErrorReport(<<"No active context">>)
      ]_vars
====
